---- MODULE Spec2Model ----
(***************************************************************************)
(* The layout task of components/main/layout/layout_task.rs: the message   *)
(* loop (handle_request / prepare_to_exit / exit_now), the reflow routine  *)
(* (handle_reflow) and the query engine (handle_query) over the cached     *)
(* display list.                                                           *)
(*                                                                         *)
(* Option<T> is a sequence of length 0 (None) or 1 (Some(v)).              *)
(***************************************************************************)
EXTENDS Naturals, Sequences, FiniteSets

\* ------------------------------------------------------------------ bounds

\* Capacity of the mailbox (the port) in the model.
MaxQueue == 2
\* Number of stylesheets script hands to the task.
MaxSheets == 1
\* Largest number of display items (at all nesting levels) of a display
\* list in the query specification.
MaxItems == 4

\* ---------------------------------------------------------------- options

None == <<>>
Some(v) == <<v>>

\* ------------------------------------------------------------------ geometry

\* Au::from_px / Au::from_frac_px: app units per pixel.
AuPerPx == 60

from_px(px) == px * AuPerPx

from_frac_px(px) == px * AuPerPx

Point2D(x, y) == [x |-> x, y |-> y]

Size2D(w, h) == [width |-> w, height |-> h]

Rect(x, y, w, h) == [origin |-> Point2D(x, y), size |-> Size2D(w, h)]

zero_rect == Rect(0, 0, 0, 0)

Min(a, b) == IF a <= b THEN a ELSE b

Max(a, b) == IF a >= b THEN a ELSE b

\* Rect::union: the smallest rect holding both.
union(r, s) ==
    LET ulx == Min(r.origin.x, s.origin.x)
        uly == Min(r.origin.y, s.origin.y)
        lrx == Max(r.origin.x + r.size.width, s.origin.x + s.size.width)
        lry == Max(r.origin.y + r.size.height, s.origin.y + s.size.height)
    IN  Rect(ulx, uly, lrx - ulx, lry - uly)

\* ------------------------------------------------------------ display lists

\* The DOM nodes display items point back to (DisplayItem base().extra).
Nodes == {"n1", "n2"}

\* A display item: ClipDisplayItemClass owns child_list, every other class
\* has none.
ClipItem(bounds, extra, child_list) ==
    [class |-> "Clip", bounds |-> bounds, extra |-> extra, child_list |-> child_list]

SolidItem(bounds, extra) ==
    [class |-> "Solid", bounds |-> bounds, extra |-> extra, child_list |-> <<>>]

\* DisplayItem::children(): a clip item's child list, empty for the rest.
children(item) == IF item.class = "Clip" THEN item.child_list ELSE <<>>

RectA == Rect(0, 0, 60, 60)
RectB == Rect(60, 60, 60, 60)
\* Bounds with no width, and with no height.
RectW == Rect(60, 60, 0, 60)
RectH == Rect(60, 60, 60, 0)

\* Labels (bounds, owner) of the items of the enumerated display lists.
SolidLabels ==
    {<<RectA, "n1">>, <<RectA, "n2">>, <<RectB, "n1">>, <<RectW, "n2">>, <<RectH, "n2">>}
ClipLabels == {<<RectA, "n1">>}

RECURSIVE ListsExact(_)
\* All item lists holding exactly n items, nested ones included.
ListsExact(n) ==
    IF n = 0 THEN {<<>>}
    ELSE UNION { { <<it>> \o rest :
                     it \in (IF k = 1 THEN {SolidItem(l[1], l[2]) : l \in SolidLabels} ELSE {})
                            \cup {ClipItem(l[1], l[2], ch) :
                                     l \in ClipLabels, ch \in ListsExact(k - 1)},
                     rest \in ListsExact(n - k) } : k \in 1..n }

\* The display lists of the query specification.
AllLists == UNION {ListsExact(n) : n \in 0..MaxItems}

\* The display lists build_display_list produces in the task specification.
List1 == <<SolidItem(RectA, "n1")>>
List2 == <<ClipItem(RectA, "n1", <<SolidItem(RectB, "n2")>>), SolidItem(RectA, "n2")>>
BuiltLists == {List1, List2}

\* Query points, in pixels.
Points == {Point2D(0, 0), Point2D(1, 1), Point2D(2, 2), Point2D(1, 0), Point2D(0, 1)}

\* ------------------------------------------------------------- query engine

RECURSIVE union_boxes_for_node(_, _, _)
\* ContentBoxQuery: the accumulator after the items of list, each item's
\* children first.
union_boxes_for_node(accumulator, list, node) ==
    IF list = <<>> THEN accumulator
    ELSE LET item == Head(list)
             acc1 == union_boxes_for_node(accumulator, children(item), node)
             acc2 == IF item.extra = node
                     THEN IF acc1 = None THEN Some(item.bounds)
                          ELSE Some(union(acc1[1], item.bounds))
                     ELSE acc1
         IN  union_boxes_for_node(acc2, Tail(list), node)

\* Mutant: only the top-level items of the list are searched.
add_boxes_for_node_top_level(accumulator, list, node) ==
    LET own == SelectSeq(list, LAMBDA item : item.extra = node)
    IN  accumulator \o [i \in 1..Len(own) |-> own[i].bounds]

RECURSIVE add_boxes_for_node(_, _, _)
\* ContentBoxesQuery: the accumulator with the matching bounds pushed.
add_boxes_for_node(accumulator, list, node) ==
    IF list = <<>> THEN accumulator
    ELSE LET item == Head(list)
             acc1 == add_boxes_for_node(accumulator, children(item), node)
             acc2 == IF item.extra = node THEN Append(acc1, item.bounds) ELSE acc1
         IN  add_boxes_for_node(acc2, Tail(list), node)

\* Mutant: the max edges belong to the bounds.
InBounds_closed(x, y, bounds) ==
    /\ x <= bounds.origin.x + bounds.size.width
    /\ bounds.origin.x <= x
    /\ y <= bounds.origin.y + bounds.size.height
    /\ bounds.origin.y <= y

\* The bound check of hit_test (lines 601-604).
InBounds(x, y, bounds) ==
    /\ x < bounds.origin.x + bounds.size.width
    /\ bounds.origin.x <= x
    /\ y < bounds.origin.y + bounds.size.height
    /\ bounds.origin.y <= y

RECURSIVE hit_test(_, _, _)
RECURSIVE hit_test_clips(_, _, _, _)
RECURSIVE hit_test_items(_, _, _, _)

RECURSIVE hit_test_clips_within_bounds(_, _, _, _)
\* Mutant: a clip item's children are searched only when the clip item's own
\* bounds hold the point.
hit_test_clips_within_bounds(x, y, list, i) ==
    IF i = 0 THEN None
    ELSE LET item == list[i]
             ret == IF item.class = "Clip" /\ InBounds(x, y, item.bounds)
                    THEN hit_test(x, y, item.child_list) ELSE None
         IN  IF ret /= None THEN ret ELSE hit_test_clips_within_bounds(x, y, list, i - 1)

\* First loop of hit_test: list.rev_iter() from index i down, clip items only.
hit_test_clips(x, y, list, i) ==
    IF i = 0 THEN None
    ELSE LET item == list[i]
             ret == IF item.class = "Clip" THEN hit_test(x, y, item.child_list) ELSE None
         IN  IF ret /= None THEN ret ELSE hit_test_clips(x, y, list, i - 1)

\* Second loop of hit_test: list.rev_iter() from index i down, clips skipped.
hit_test_items(x, y, list, i) ==
    IF i = 0 THEN None
    ELSE LET item == list[i]
         IN  IF item.class /= "Clip" /\ InBounds(x, y, item.bounds)
             THEN Some(item.extra)
             ELSE hit_test_items(x, y, list, i - 1)

\* Mutant: the non-clip items are scanned before the clip items.
hit_test_items_first(x, y, list) ==
    LET ret == hit_test_items(x, y, list, Len(list))
    IN  IF ret /= None THEN ret ELSE hit_test_clips(x, y, list, Len(list))

hit_test(x, y, list) ==
    LET ret == hit_test_clips(x, y, list, Len(list))
    IN  IF ret /= None THEN ret ELSE hit_test_items(x, y, list, Len(list))

\* ----------------------------------------------------------------- messages

\* Msg (script::layout_interface), as queued on the port: the variant; its
\* payload is drawn when the message is received.
MsgTags == {"AddStylesheet", "Reflow", "Query", "ReapLayoutData", "PrepareToExit", "ExitNow"}

Sheets == {"s1"}

DamageLevels ==
    {"ReflowDocumentDamage", "MatchSelectorsDocumentDamage", "ContentChangedDocumentDamage"}

Goals == {"ReflowForDisplay", "ReflowForScriptQuery"}

\* Window sizes of a reflow request, in pixels.
WindowSizes == {Size2D(1, 1), Size2D(2, 1)}

NoMsg == [type |-> "None"]

AddStylesheetMsg(sheet) == [type |-> "AddStylesheet", sheet |-> sheet]

ReflowMsg(damage, window_size, goal) ==
    [type |-> "Reflow", damage |-> damage, window_size |-> window_size, goal |-> goal]

ContentBoxQuery(node) == [kind |-> "ContentBox", node |-> node]

ContentBoxesQuery(node) == [kind |-> "ContentBoxes", node |-> node]

HitTestQuery(point) == [kind |-> "HitTest", point |-> point]

Queries ==
    {ContentBoxQuery(n) : n \in Nodes} \cup {ContentBoxesQuery(n) : n \in Nodes}
        \cup {HitTestQuery(p) : p \in Points}

QueryMsg(query) == [type |-> "Query", query |-> query]

ReapLayoutDataMsg(node) == [type |-> "ReapLayoutData", node |-> node]

\* Result<HitTestResponse, ()>.
Ok(v) == [ok |-> TRUE, val |-> Some(v)]
Err == [ok |-> FALSE, val |-> None]

\* The document root of every reflow request.
Root == "n1"

\* ------------------------------------------------------------ the document

\* Largest number of elements of the reflowed subtree in the colour
\* specification.
MaxElements == 3

\* gfx::color::rgba.
rgba(r, g, b, a) == [r |-> r, g |-> g, b |-> b, a |-> a]

\* Resolved background colours: transparent (the initial value), a red that
\* is fully transparent, opaque red, opaque blue.
Colors == {rgba(0, 0, 0, 0), rgba(255, 0, 0, 0), rgba(255, 0, 0, 255), rgba(0, 0, 255, 255)}

\* The type_id() of the elements of a document.
TypeIds == {"HTMLHtmlElementTypeId", "HTMLBodyElementTypeId", "HTMLDivElementTypeId"}

Element(type_id, background_color) ==
    [type_id |-> type_id, background_color |-> background_color]

RECURSIVE Documents(_)
\* The documents of n elements, as node.traverse_preorder() yields them.
Documents(n) ==
    IF n = 0 THEN {<<>>}
    ELSE {<<Element(t, c)>> \o rest : t \in TypeIds, c \in Colors, rest \in Documents(n - 1)}

\* The document of the task specification.
Page ==
    <<Element("HTMLHtmlElementTypeId", rgba(0, 0, 0, 0)),
      Element("HTMLBodyElementTypeId", rgba(255, 0, 0, 255)),
      Element("HTMLDivElementTypeId", rgba(0, 0, 255, 255))>>

RECURSIVE background_color(_)
\* Lines 487-503: the colour of the render layer.
background_color(doc) ==
    IF doc = <<>> THEN rgba(255, 255, 255, 255)
    ELSE LET child == Head(doc)
         IN  IF /\ child.type_id \in {"HTMLHtmlElementTypeId", "HTMLBodyElementTypeId"}
                /\ child.background_color /= rgba(0, 0, 0, 0)
             THEN child.background_color
             ELSE background_color(Tail(doc))

\* --------------------------------------------------------------------- state

VARIABLES
    pc,             \* where the task is in start / handle_request / ...
    inDrain,        \* the task is inside prepare_to_exit
    mailbox,        \* self.port: the messages sent and not yet received
    cur,            \* the message the last recv() returned
    out,            \* what handling cur has sent or called so far, in order
    frame,          \* handle_reflow's locals
    screen_size,    \* self.screen_size
    display_list,   \* self.display_list
    stylist,        \* self.stylist: the sheets added, in order
    layout_data,    \* per node: it has layout data
    prepAcks,       \* pongs sent on PrepareToExitMsg response channels
    exitReqs,       \* ExitMsg sent on render_chan
    exitAcks,       \* answers of the render task to ExitMsg
    last_built,     \* history: the display list the last build_display_list made
    layout_root,    \* handle_reflow's flow tree, None outside the tree passes
    traversal,      \* the flows the running traversal has still to visit, and
                    \* history: the restyle damage when the last two passes began
    incremental,    \* which bits RestyleDamage propagates up and down
    on_image_available, \* the responder the image cache holds
    document,       \* the elements of the document, in document order
    script_chan     \* the events the responder has posted to script

\* The state of the tree passes of a reflow.
flowvars == <<layout_root, traversal, incremental>>

\* The state shared with the image cache and its callers.
imagevars == <<on_image_available, script_chan>>

vars == <<pc, inDrain, mailbox, cur, out, frame, screen_size, display_list,
          stylist, layout_data, prepAcks, exitReqs, exitAcks, last_built,
          flowvars, imagevars, document>>

\* The task fields handle_request's callees may write.
fields == <<screen_size, display_list, stylist, layout_data>>

NoFrame == [all_style_damage |-> FALSE, display_list |-> None, color |-> None]

\* No traversal is running.
NoTraversal == [todo |-> <<>>, marks |-> <<>>]

\* self.id, the pipeline of the task.
self_id == "PipelineId"

\* make_on_image_available_cb: the responder made for the image cache.
LayoutImageResponder == [id |-> self_id]

\* LayoutTask::new, then start() about to call handle_request.
Init ==
    /\ pc = "recv"
    /\ inDrain = FALSE
    /\ mailbox = <<>>
    /\ cur = NoMsg
    /\ out = <<>>
    /\ frame = NoFrame
    /\ screen_size = None
    /\ display_list = None
    /\ stylist = <<>>
    /\ layout_data = [n \in Nodes |-> FALSE]
    /\ prepAcks = 0
    /\ exitReqs = 0
    /\ exitAcks = 0
    /\ last_built = None
    /\ layout_root = None
    /\ traversal = NoTraversal
    /\ incremental = None
    /\ on_image_available = None
    /\ script_chan = <<>>
    /\ document = Page

\* The lifecycle state of the task.
LifeState ==
    IF pc = "done" THEN "Terminated"
    ELSE IF pc = "failed" THEN "Failed"
    ELSE IF inDrain THEN "Draining"
    ELSE "Running"

Count(seq, v) == Cardinality({i \in 1..Len(seq) : seq[i] = v})

\* -------------------------------------------------------------- environment

\* Script (or the constellation) sends a message to the layout task.
ScriptSend(tag) ==
    /\ Len(mailbox) < MaxQueue
    /\ tag = "AddStylesheet" => Len(stylist) + Count(mailbox, tag) < MaxSheets
    /\ mailbox' = Append(mailbox, tag)
    /\ UNCHANGED <<last_built, flowvars, imagevars, document, pc, inDrain, cur, out, frame, fields, prepAcks, exitReqs, exitAcks>>

\* The render task handles ExitMsg and answers on its response channel.
RenderExit ==
    /\ exitAcks < exitReqs
    /\ exitAcks' = exitAcks + 1
    /\ UNCHANGED <<last_built, flowvars, imagevars, document, pc, inDrain, mailbox, cur, out, frame, fields, prepAcks, exitReqs>>

\* ------------------------------------------------------- handle_request arms

\* The positions of the task inside handle_reflow.
ReflowPcs == {"style", "construct", "layout", "build", "cache", "render", "join", "complete"}

\* Mutant: the port is also read in the middle of a reflow.
Recv_reentrant(tag) ==
    pc \in {"recv"} \cup ReflowPcs /\ mailbox /= <<>> /\ Head(mailbox) = tag

\* self.port.recv() in handle_request returns a message of this variant.
Recv(tag) == pc = "recv" /\ mailbox /= <<>> /\ Head(mailbox) = tag

handle_add_stylesheet ==
    /\ Recv("AddStylesheet")
    /\ \E sheet \in Sheets :
        /\ cur' = AddStylesheetMsg(sheet)
        /\ stylist' = Append(stylist, sheet)
    /\ mailbox' = Tail(mailbox)
    /\ out' = <<>>
    /\ UNCHANGED <<last_built, flowvars, imagevars, document, pc, inDrain, frame, screen_size, display_list, layout_data,
                   prepAcks, exitReqs, exitAcks>>

handle_reap_layout_data ==
    /\ Recv("ReapLayoutData")
    /\ \E node \in Nodes :
        /\ cur' = ReapLayoutDataMsg(node)
        /\ layout_data' = [layout_data EXCEPT ![node] = FALSE]
    /\ mailbox' = Tail(mailbox)
    /\ out' = <<>>
    /\ UNCHANGED <<last_built, flowvars, imagevars, document, pc, inDrain, frame, screen_size, display_list, stylist,
                   prepAcks, exitReqs, exitAcks>>

\* Mutant: the hit test unwraps the cached display list as the box queries do.
QueryReply_unwrap(query, dl) ==
    IF dl = None THEN None
    ELSE IF query.kind = "ContentBox"
    THEN LET rect == union_boxes_for_node(None, dl[1], query.node)
         IN  Some([ev |-> "ContentBoxResponse",
                   rect |-> IF rect = None THEN zero_rect ELSE rect[1]])
    ELSE IF query.kind = "ContentBoxes"
    THEN Some([ev |-> "ContentBoxesResponse",
               rects |-> add_boxes_for_node(<<>>, dl[1], query.node)])
    ELSE LET resp == hit_test(from_frac_px(query.point.x),
                              from_frac_px(query.point.y), dl[1])
         IN  Some([ev |-> "HitTestResponse",
                   result |-> IF resp = None THEN Err ELSE Ok(resp[1])])

\* The reply of handle_query, None where the handler fails before replying.
QueryReply(query, dl) ==
    IF query.kind = "ContentBox"
    THEN IF dl = None THEN None
         ELSE LET rect == union_boxes_for_node(None, dl[1], query.node)
              IN  Some([ev |-> "ContentBoxResponse",
                        rect |-> IF rect = None THEN zero_rect ELSE rect[1]])
    ELSE IF query.kind = "ContentBoxes"
    THEN IF dl = None THEN None
         ELSE Some([ev |-> "ContentBoxesResponse",
                    rects |-> add_boxes_for_node(<<>>, dl[1], query.node)])
    ELSE IF dl = None THEN Some([ev |-> "HitTestResponse", result |-> Err])
         ELSE LET resp == hit_test(from_frac_px(query.point.x),
                                   from_frac_px(query.point.y), dl[1])
              IN  Some([ev |-> "HitTestResponse",
                        result |-> IF resp = None THEN Err ELSE Ok(resp[1])])

handle_query ==
    /\ Recv("Query")
    /\ \E query \in Queries :
        LET reply == QueryReply(query, display_list)
        IN  /\ cur' = QueryMsg(query)
            /\ out' = reply
            /\ pc' = IF reply = None THEN "failed" ELSE "recv"
    /\ mailbox' = Tail(mailbox)
    /\ UNCHANGED <<last_built, flowvars, imagevars, document, inDrain, frame, fields, prepAcks, exitReqs, exitAcks>>

\* PrepareToExitMsg arm: prepare_to_exit is entered.
handle_prepare_to_exit ==
    /\ Recv("PrepareToExit")
    /\ cur' = [type |-> "PrepareToExit"]
    /\ mailbox' = Tail(mailbox)
    /\ out' = <<>>
    /\ pc' = "ack"
    /\ inDrain' = TRUE
    /\ UNCHANGED <<last_built, flowvars, imagevars, document, frame, fields, prepAcks, exitReqs, exitAcks>>

\* ExitNowMsg arm: exit_now is entered.
handle_exit_now ==
    /\ Recv("ExitNow")
    /\ cur' = [type |-> "ExitNow"]
    /\ mailbox' = Tail(mailbox)
    /\ out' = <<>>
    /\ pc' = "exit_send"
    /\ UNCHANGED <<last_built, flowvars, imagevars, document, inDrain, frame, fields, prepAcks, exitReqs, exitAcks>>

\* ----------------------------------------------------------- prepare_to_exit

\* Mutant: the drain loop is entered without the pong.
prepare_to_exit_no_ack ==
    /\ pc = "ack"
    /\ pc' = "drain"
    /\ UNCHANGED <<last_built, flowvars, imagevars, document, inDrain, mailbox, cur, out, frame, fields, prepAcks,
                   exitReqs, exitAcks>>

\* response_chan.send(()).
prepare_to_exit_ack ==
    /\ pc = "ack"
    /\ prepAcks' = prepAcks + 1
    /\ out' = Append(out, [ev |-> "pong"])
    /\ pc' = "drain"
    /\ UNCHANGED <<last_built, flowvars, imagevars, document, inDrain, mailbox, cur, frame, fields, exitReqs, exitAcks>>

\* self.port.recv() in prepare_to_exit's loop returns a message of this variant.
DrainRecv(tag) == pc = "drain" /\ mailbox /= <<>> /\ Head(mailbox) = tag

prepare_to_exit_reap ==
    /\ DrainRecv("ReapLayoutData")
    /\ \E node \in Nodes :
        /\ cur' = ReapLayoutDataMsg(node)
        /\ layout_data' = [layout_data EXCEPT ![node] = FALSE]
    /\ mailbox' = Tail(mailbox)
    /\ out' = <<>>
    /\ UNCHANGED <<last_built, flowvars, imagevars, document, pc, inDrain, frame, screen_size, display_list, stylist,
                   prepAcks, exitReqs, exitAcks>>

\* Mutant: the drain loop drops ExitNowMsg and reads on.
prepare_to_exit_exit_now_dropped ==
    /\ DrainRecv("ExitNow")
    /\ cur' = [type |-> "ExitNow"]
    /\ mailbox' = Tail(mailbox)
    /\ out' = <<>>
    /\ UNCHANGED <<last_built, flowvars, imagevars, document, pc, inDrain, frame, fields, prepAcks, exitReqs, exitAcks>>

prepare_to_exit_exit_now ==
    /\ DrainRecv("ExitNow")
    /\ cur' = [type |-> "ExitNow"]
    /\ mailbox' = Tail(mailbox)
    /\ out' = <<>>
    /\ pc' = "exit_send"
    /\ UNCHANGED <<last_built, flowvars, imagevars, document, inDrain, frame, fields, prepAcks, exitReqs, exitAcks>>

\* Mutant: the `_` arm drops the message and keeps draining.
prepare_to_exit_ignore ==
    /\ pc = "drain"
    /\ mailbox /= <<>>
    /\ Head(mailbox) \notin {"ReapLayoutData", "ExitNow"}
    /\ cur' = [type |-> Head(mailbox)]
    /\ mailbox' = Tail(mailbox)
    /\ out' = <<>>
    /\ UNCHANGED <<last_built, flowvars, imagevars, document, pc, inDrain, frame, fields, prepAcks, exitReqs, exitAcks>>

\* The `_` arm: fail!().
prepare_to_exit_fail ==
    /\ pc = "drain"
    /\ mailbox /= <<>>
    /\ Head(mailbox) \notin {"ReapLayoutData", "ExitNow"}
    /\ cur' = [type |-> Head(mailbox)]
    /\ mailbox' = Tail(mailbox)
    /\ out' = <<>>
    /\ pc' = "failed"
    /\ UNCHANGED <<last_built, flowvars, imagevars, document, inDrain, frame, fields, prepAcks, exitReqs, exitAcks>>

\* ------------------------------------------------------------------ exit_now

\* self.render_chan.send(render_task::ExitMsg(response_chan)).
exit_now_send ==
    /\ pc = "exit_send"
    /\ exitReqs' = exitReqs + 1
    /\ out' = Append(out, [ev |-> "ExitMsg"])
    /\ pc' = "exit_wait"
    /\ UNCHANGED <<last_built, flowvars, imagevars, document, inDrain, mailbox, cur, frame, fields, prepAcks, exitAcks>>

\* Mutant: exit_now returns without the render task's answer.
exit_now_no_wait ==
    /\ pc = "exit_wait"
    /\ pc' = "done"
    /\ UNCHANGED <<last_built, flowvars, imagevars, document, inDrain, mailbox, cur, out, frame, fields, prepAcks,
                   exitReqs, exitAcks>>

\* Mutant: after the render task's answer handle_request returns true and
\* the loop of start reads on.
exit_now_recv_continue ==
    /\ pc = "exit_wait"
    /\ exitAcks >= exitReqs
    /\ pc' = "recv"
    /\ UNCHANGED <<last_built, flowvars, imagevars, document, inDrain, mailbox, cur, out, frame, fields, prepAcks, exitReqs, exitAcks>>

\* response_port.recv() returns; exit_now returns, handle_request returns
\* false and start's loop ends.
exit_now_recv ==
    /\ pc = "exit_wait"
    /\ exitAcks >= exitReqs
    /\ pc' = "done"
    /\ UNCHANGED <<last_built, flowvars, imagevars, document, inDrain, mailbox, cur, out, frame, fields, prepAcks, exitReqs, exitAcks>>

\* ------------------------------------------------------------- handle_reflow

\* Mutant: the window size is stored but not compared.
handle_reflow_begin_damage_only ==
    /\ Recv("Reflow")
    /\ \E damage \in DamageLevels, window_size \in WindowSizes, goal \in Goals :
        /\ cur' = ReflowMsg(damage, window_size, goal)
        /\ frame' = [all_style_damage |-> (damage = "ContentChangedDocumentDamage"),
                     display_list |-> None, color |-> None]
        /\ screen_size' = Some(Size2D(from_px(window_size.width),
                                      from_px(window_size.height)))
    /\ mailbox' = Tail(mailbox)
    /\ out' = <<[ev |-> "next_round"]>>
    /\ on_image_available' = Some(LayoutImageResponder)
    /\ pc' = "style"
    /\ UNCHANGED <<last_built, flowvars, script_chan, document, inDrain, display_list, stylist, layout_data, prepAcks, exitReqs, exitAcks>>

\* ReflowMsg arm, and handle_reflow to line 429: the image cache round is
\* reset, all_style_damage decided and self.screen_size stored.
handle_reflow_begin ==
    /\ Recv("Reflow")
    /\ \E damage \in DamageLevels, window_size \in WindowSizes, goal \in Goals :
        LET size == Size2D(from_px(window_size.width), from_px(window_size.height))
        IN  /\ cur' = ReflowMsg(damage, window_size, goal)
            /\ frame' = [all_style_damage |->
                             (damage = "ContentChangedDocumentDamage"
                                 \/ screen_size /= Some(size)),
                         display_list |-> None, color |-> None]
            /\ screen_size' = Some(size)
    /\ mailbox' = Tail(mailbox)
    /\ out' = <<[ev |-> "next_round"]>>
    /\ on_image_available' = Some(LayoutImageResponder)
    /\ pc' = "style"
    /\ UNCHANGED <<last_built, flowvars, script_chan, document, inDrain, display_list, stylist, layout_data, prepAcks, exitReqs, exitAcks>>

\* Mutant: selectors are matched whatever the damage level.
handle_reflow_style_always ==
    /\ pc = "style"
    /\ layout_data' = [n \in Nodes |-> TRUE]
    /\ out' = out \o <<[ev |-> "initialize_style_for_subtree"],
                        [ev |-> "match_subtree"], [ev |-> "cascade_subtree"]>>
    /\ pc' = "construct"
    /\ UNCHANGED <<last_built, flowvars, imagevars, document, inDrain, mailbox, cur, frame, screen_size, display_list, stylist,
                   prepAcks, exitReqs, exitAcks>>

\* Lines 431-450: initialize_style_for_subtree, then match_subtree and
\* cascade_subtree unless the damage level is ReflowDocumentDamage.
handle_reflow_style ==
    /\ pc = "style"
    /\ layout_data' = [n \in Nodes |-> TRUE]
    /\ out' = out \o <<[ev |-> "initialize_style_for_subtree"]>>
                  \o (IF cur.damage = "ReflowDocumentDamage" THEN <<>>
                      ELSE <<[ev |-> "match_subtree"], [ev |-> "cascade_subtree"]>>)
    /\ pc' = "construct"
    /\ UNCHANGED <<last_built, flowvars, imagevars, document, inDrain, mailbox, cur, frame, screen_size, display_list, stylist,
                   prepAcks, exitReqs, exitAcks>>

\* construct_flow_tree: the flow constructor leaves a flow at the root, or
\* none, and then the task fails.
construct_flow_tree ==
    /\ pc = "construct"
    /\ \E result \in {"FlowConstructionResult", "NoConstructionResult"} :
        /\ out' = Append(out, [ev |-> "construct_flow_tree"])
        /\ pc' = IF layout_data[Root] /\ result = "FlowConstructionResult"
                 THEN "layout" ELSE "failed"
    /\ UNCHANGED <<last_built, flowvars, imagevars, document, inDrain, mailbox, cur, frame, fields, prepAcks, exitReqs, exitAcks>>

\* Mutant: the display list is built whatever the goal.
handle_reflow_layout_any_goal ==
    /\ pc = "layout"
    /\ out' = out \o <<[ev |-> "PropagateDamageTraversal"], [ev |-> "ComputeDamageTraversal"],
                       [ev |-> "solve_constraints"]>>
    /\ pc' = "build"
    /\ UNCHANGED <<last_built, flowvars, imagevars, document, inDrain, mailbox, cur, frame, fields, prepAcks, exitReqs, exitAcks>>

\* Lines 457-473: the damage traversals, solve_constraints, and the test of
\* the goal.
handle_reflow_layout ==
    /\ pc = "layout"
    /\ out' = out \o <<[ev |-> "PropagateDamageTraversal"], [ev |-> "ComputeDamageTraversal"],
                       [ev |-> "solve_constraints"]>>
    /\ pc' = IF cur.goal = "ReflowForDisplay" THEN "build" ELSE "join"
    /\ UNCHANGED <<last_built, flowvars, imagevars, document, inDrain, mailbox, cur, frame, fields, prepAcks, exitReqs, exitAcks>>

\* Lines 474-510: build_display_list fills a new display list, and the
\* colour of the render layer is taken from the document.
handle_reflow_build_display_list ==
    /\ pc = "build"
    /\ \E list \in BuiltLists :
        /\ frame' = [frame EXCEPT !.display_list = Some(list),
                                  !.color = Some(background_color(document))]
        /\ last_built' = Some(list)
    /\ out' = Append(out, [ev |-> "build_display_list"])
    /\ pc' = "cache"
    /\ UNCHANGED <<flowvars, imagevars, document, inDrain, mailbox, cur, fields, prepAcks, exitReqs,
                   exitAcks>>

\* Mutant: the new display list is sent but not cached.
handle_reflow_no_cache ==
    /\ pc = "cache"
    /\ pc' = "render"
    /\ UNCHANGED <<last_built, flowvars, imagevars, document, inDrain, mailbox, cur, out, frame, fields, prepAcks,
                   exitReqs, exitAcks>>

\* Line 512: self.display_list = Some(display_list.clone()).
handle_reflow_cache ==
    /\ pc = "cache"
    /\ display_list' = frame.display_list
    /\ pc' = "render"
    /\ UNCHANGED <<last_built, flowvars, imagevars, document, inDrain, mailbox, cur, out, frame, screen_size, stylist, layout_data,
                   prepAcks, exitReqs, exitAcks>>

\* Line 514: self.render_chan.send(RenderMsg(render_layer)).
handle_reflow_render ==
    /\ pc = "render"
    /\ out' = Append(out, [ev |-> "RenderMsg", display_list |-> frame.display_list,
                           color |-> frame.color])
    /\ pc' = "join"
    /\ UNCHANGED <<last_built, flowvars, imagevars, document, inDrain, mailbox, cur, frame, fields, prepAcks, exitReqs, exitAcks>>

\* Mutant: the join channel is not signalled.
handle_reflow_no_join ==
    /\ pc = "join"
    /\ pc' = "complete"
    /\ UNCHANGED <<last_built, flowvars, imagevars, document, inDrain, mailbox, cur, out, frame, fields, prepAcks,
                   exitReqs, exitAcks>>

\* Line 522: data.script_join_chan.send(()).
handle_reflow_join ==
    /\ pc = "join"
    /\ out' = Append(out, [ev |-> "join"])
    /\ pc' = "complete"
    /\ UNCHANGED <<last_built, flowvars, imagevars, document, inDrain, mailbox, cur, frame, fields, prepAcks, exitReqs, exitAcks>>

\* Line 523: data.script_chan.send(ReflowCompleteMsg(self.id, data.id));
\* handle_reflow returns, its flow tree is dropped, and handle_request
\* returns true.
handle_reflow_complete ==
    /\ pc = "complete"
    /\ out' = Append(out, [ev |-> "ReflowCompleteMsg"])
    /\ frame' = NoFrame
    /\ layout_root' = None
    /\ traversal' = NoTraversal
    /\ pc' = "recv"
    /\ UNCHANGED <<last_built, incremental, imagevars, document, inDrain, mailbox, cur, fields, prepAcks, exitReqs, exitAcks>>

\* ------------------------------------------------------------- specification

handle_reflow ==
    \/ handle_reflow_begin
    \/ handle_reflow_style
    \/ construct_flow_tree
    \/ handle_reflow_layout
    \/ handle_reflow_build_display_list
    \/ handle_reflow_cache
    \/ handle_reflow_render
    \/ handle_reflow_join
    \/ handle_reflow_complete

prepare_to_exit ==
    \/ prepare_to_exit_ack
    \/ prepare_to_exit_reap
    \/ prepare_to_exit_exit_now
    \/ prepare_to_exit_fail

exit_now ==
    \/ exit_now_send
    \/ exit_now_recv

\* One step of the layout task.
handle_request ==
    \/ handle_add_stylesheet
    \/ handle_reflow
    \/ handle_query
    \/ handle_reap_layout_data
    \/ handle_prepare_to_exit
    \/ handle_exit_now
    \/ prepare_to_exit
    \/ exit_now

Next ==
    \/ \E tag \in MsgTags : ScriptSend(tag)
    \/ RenderExit
    \/ handle_request

Spec == Init /\ [][Next]_vars

\* Script sends ExitNowMsg at any time, and any other message once the task
\* has received the ones before it.
LiveSend(tag) == (tag = "ExitNow" \/ mailbox = <<>>) /\ ScriptSend(tag)

LiveNext ==
    \/ \E tag \in MsgTags : LiveSend(tag)
    \/ RenderExit
    \/ handle_request

\* The task with its scheduling: the task is a thread of its own that takes
\* its next step whenever it has one (a recv on an empty port or on the
\* render task's unanswered response port blocks it), and the render task
\* answers every ExitMsg it is sent.
SpecLive ==
    /\ Init
    /\ [][LiveNext]_vars
    /\ WF_vars(handle_request)
    /\ WF_vars(RenderExit)

\* ------------------------------------------------- the query specification

\* The task between two messages, with any display list of AllLists cached
\* by an earlier reflow for display, or none cached yet.
QueryInit ==
    /\ pc = "recv"
    /\ inDrain = FALSE
    /\ mailbox = <<>>
    /\ cur = NoMsg
    /\ out = <<>>
    /\ frame = NoFrame
    /\ display_list \in {None} \cup {Some(list) : list \in AllLists}
    /\ last_built = display_list
    /\ screen_size = IF display_list = None THEN None
                     ELSE Some(Size2D(from_px(1), from_px(1)))
    /\ stylist = <<>>
    /\ layout_data = [n \in Nodes |-> display_list /= None]
    /\ prepAcks = 0
    /\ exitReqs = 0
    /\ exitAcks = 0
    /\ layout_root = None
    /\ traversal = NoTraversal
    /\ incremental = None
    /\ on_image_available = IF display_list = None THEN None ELSE Some(LayoutImageResponder)
    /\ script_chan = <<>>
    /\ document = Page

\* Script sends one query to that task.
QuerySend == cur = NoMsg /\ mailbox = <<>> /\ ScriptSend("Query")

QueryNext == QuerySend \/ handle_query

SpecQuery == QueryInit /\ [][QueryNext]_vars

\* ------------------------------------------------------------ the flow tree

\* Largest number of flows of the flow tree construct_flow_tree returns.
MaxFlows == 3

\* RestyleDamage: a set of these bits (layout::incremental).
Bits == {"BubbleWidths", "Reflow"}

\* RestyleDamage::all().
RestyleDamage_all == Bits

\* A propagation that keeps the bits of keep and drops the others.
Keep(keep) == [b \in Bits |-> IF b \in keep THEN {b} ELSE {}]

\* The behaviours of RestyleDamage::propagate_up / propagate_down the passes
\* are run against: per bit of the argument, the bits of the result.
Incrementals ==
    {[up |-> Keep({"BubbleWidths"}), down |-> Keep({"Reflow"})],
     [up |-> Keep(Bits), down |-> Keep(Bits)],
     [up |-> Keep({}), down |-> Keep({})],
     [up |-> [b \in Bits |-> {"BubbleWidths"}], down |-> [b \in Bits |-> Bits]]}

\* RestyleDamage::propagate_up.
propagate_up(damage) == UNION {incremental[1].up[b] : b \in damage}

\* RestyleDamage::propagate_down.
propagate_down(damage) == UNION {incremental[1].down[b] : b \in damage}

\* The flow trees flow construction can leave at the root: flow 1 is the
\* root, parent[i] the parent of flow i, every flow made after its parent.
FlowTrees ==
    UNION {{parent \in [1..n -> 0..(n - 1)] :
                parent[1] = 0 /\ \A i \in 2..n : 1 <= parent[i] /\ parent[i] < i} :
           n \in 1..MaxFlows}

\* flow::child_iter: the children of flow, in order.
child_iter(parent, flow) ==
    SelectSeq([i \in 1..Len(parent) |-> i], LAMBDA kid : parent[kid] = flow)

RECURSIVE traverse_preorder(_, _)
RECURSIVE preorder_kids(_, _)
\* Flow::traverse_preorder: the flows in the order process is called on
\* them, a flow before its children.
traverse_preorder(parent, flow) == <<flow>> \o preorder_kids(parent, child_iter(parent, flow))

preorder_kids(parent, kids) ==
    IF kids = <<>> THEN <<>>
    ELSE traverse_preorder(parent, Head(kids)) \o preorder_kids(parent, Tail(kids))

RECURSIVE traverse_postorder(_, _)
RECURSIVE postorder_kids(_, _)
\* Flow::traverse_postorder: the flows in the order they are visited, a
\* flow after its children.
traverse_postorder(parent, flow) == postorder_kids(parent, child_iter(parent, flow)) \o <<flow>>

postorder_kids(parent, kids) ==
    IF kids = <<>> THEN <<>>
    ELSE traverse_postorder(parent, Head(kids)) \o postorder_kids(parent, Tail(kids))

\* Mutant: solve_constraints assigns the widths before it bubbles them.
Passes_widths_first ==
    <<"PropagateDamageTraversal", "ComputeDamageTraversal", "AssignWidthsTraversal",
      "BubbleWidthsTraversal", "AssignHeightsAndStoreOverflowTraversal">>

\* The traversals of handle_reflow (lines 458-461) and solve_constraints
\* (lines 386-396), in the order they are run.
Passes ==
    <<"PropagateDamageTraversal", "ComputeDamageTraversal", "BubbleWidthsTraversal",
      "AssignWidthsTraversal", "AssignHeightsAndStoreOverflowTraversal">>

\* Mutant: every traversal of the reflow is a preorder one.
Order_preorder(i, parent) == traverse_preorder(parent, 1)

\* The order in which pass i visits the flows of the tree.
Order(i, parent) ==
    IF Passes[i] \in {"PropagateDamageTraversal", "AssignWidthsTraversal"}
    THEN traverse_preorder(parent, 1)
    ELSE traverse_postorder(parent, 1)

\* Mutant: a root without a flow construction result is not fatal; the tree
\* passes are skipped.
construct_flow_tree_root_no_fail ==
    /\ pc = "construct"
    /\ out' = Append(out, [ev |-> "construct_flow_tree",
                           flow_construction_result |-> "NoConstructionResult"])
    /\ pc' = IF cur.goal = "ReflowForDisplay" THEN "build" ELSE "join"
    /\ UNCHANGED <<last_built, flowvars, imagevars, document, inDrain, mailbox, cur, frame, fields,
                   prepAcks, exitReqs, exitAcks>>

\* construct_flow_tree, with the flow tree it returns: the root's
\* flow_construction_result is taken; without a flow in it the task fails,
\* else the flow is marked as root and the first traversal starts.
construct_flow_tree_root ==
    /\ pc = "construct"
    /\ \E result \in {None} \cup {Some(parent) : parent \in FlowTrees} :
        /\ out' = Append(out, [ev |-> "construct_flow_tree",
                               flow_construction_result |->
                                    IF result = None THEN "NoConstructionResult"
                                    ELSE "FlowConstructionResult"])
        /\ IF layout_data[Root] /\ result /= None
           THEN \E damage \in [1..Len(result[1]) -> SUBSET Bits], inc \in Incrementals :
                /\ layout_root' = Some([parent |-> result[1],
                                        restyle_damage |-> damage,
                                        is_root |-> [i \in 1..Len(result[1]) |-> i = 1],
                                        inorder |-> [i \in 1..Len(result[1]) |-> "unread"]])
                /\ traversal' = [todo |-> Order(1, result[1]), marks |-> <<damage>>]
                /\ incremental' = Some(inc)
                /\ pc' = Passes[1]
           ELSE /\ pc' = "failed"
                /\ UNCHANGED flowvars
    /\ UNCHANGED <<last_built, imagevars, document, inDrain, mailbox, cur, frame, fields, prepAcks,
                   exitReqs, exitAcks>>

\* The running pass has processed the head of traversal.todo: the traversal goes on
\* with the next flow, or has ended and the next pass starts, or the goal is
\* tested (line 473) after the last one.
EndProcess ==
    LET rest == Tail(traversal.todo)
        damage == layout_root'[1].restyle_damage
        i == CHOOSE k \in 1..Len(Passes) : Passes[k] = pc
    IN  IF rest /= <<>>
        THEN /\ traversal' = [traversal EXCEPT !.todo = rest]
             /\ pc' = pc
        ELSE /\ traversal' = [todo |-> IF i < Len(Passes)
                                       THEN Order(i + 1, layout_root[1].parent) ELSE <<>>,
                              marks |-> <<traversal.marks[Len(traversal.marks)], damage>>]
             /\ pc' = IF i < Len(Passes) THEN Passes[i + 1]
                      ELSE IF cur.goal = "ReflowForDisplay" THEN "build" ELSE "join"

\* Mutant: the damage is forced on the root only.
PropagateDamageTraversal_root_only ==
    /\ pc = "PropagateDamageTraversal"
    /\ LET tree == layout_root[1]
           flow == Head(traversal.todo)
           own == IF frame.all_style_damage /\ flow = 1
                  THEN tree.restyle_damage[flow] \cup RestyleDamage_all
                  ELSE tree.restyle_damage[flow]
       IN  /\ layout_root' = Some([tree EXCEPT !.restyle_damage[flow] = own])
           /\ out' = Append(out, [ev |-> "PropagateDamageTraversal", flow |-> flow])
    /\ EndProcess
    /\ UNCHANGED <<last_built, incremental, imagevars, document, inDrain, mailbox, cur, frame, fields,
                   prepAcks, exitReqs, exitAcks>>

\* PropagateDamageTraversal::process on the next flow of the preorder
\* traversal.
PropagateDamageTraversal_process ==
    /\ pc = "PropagateDamageTraversal"
    /\ LET tree == layout_root[1]
           flow == Head(traversal.todo)
           own == IF frame.all_style_damage
                  THEN tree.restyle_damage[flow] \cup RestyleDamage_all
                  ELSE tree.restyle_damage[flow]
           prop == propagate_down(own)
       IN  /\ layout_root' =
                Some([tree EXCEPT !.restyle_damage =
                        [i \in 1..Len(tree.parent) |->
                            IF i = flow THEN own
                            ELSE IF tree.parent[i] = flow /\ prop /= {}
                            THEN tree.restyle_damage[i] \cup prop
                            ELSE tree.restyle_damage[i]]])
           /\ out' = Append(out, [ev |-> "PropagateDamageTraversal", flow |-> flow])
    /\ EndProcess
    /\ UNCHANGED <<last_built, incremental, imagevars, document, inDrain, mailbox, cur, frame, fields,
                   prepAcks, exitReqs, exitAcks>>

RECURSIVE UnionUp(_, _, _)
\* The loop of ComputeDamageTraversal::process over the children kids.
UnionUp(damage, restyle_damage, kids) ==
    IF kids = <<>> THEN damage
    ELSE UnionUp(damage \cup propagate_up(restyle_damage[Head(kids)]), restyle_damage,
                 Tail(kids))

\* Mutant: only the first child contributes.
ComputeDamageTraversal_first_child ==
    /\ pc = "ComputeDamageTraversal"
    /\ LET tree == layout_root[1]
           flow == Head(traversal.todo)
           kids == child_iter(tree.parent, flow)
           damage == UnionUp(tree.restyle_damage[flow], tree.restyle_damage,
                             IF kids = <<>> THEN kids ELSE <<Head(kids)>>)
       IN  /\ layout_root' = Some([tree EXCEPT !.restyle_damage[flow] = damage])
           /\ out' = Append(out, [ev |-> "ComputeDamageTraversal", flow |-> flow])
    /\ EndProcess
    /\ UNCHANGED <<last_built, incremental, imagevars, document, inDrain, mailbox, cur, frame, fields,
                   prepAcks, exitReqs, exitAcks>>

\* ComputeDamageTraversal::process on the next flow of the postorder
\* traversal.
ComputeDamageTraversal_process ==
    /\ pc = "ComputeDamageTraversal"
    /\ LET tree == layout_root[1]
           flow == Head(traversal.todo)
           damage == UnionUp(tree.restyle_damage[flow], tree.restyle_damage,
                             child_iter(tree.parent, flow))
       IN  /\ layout_root' = Some([tree EXCEPT !.restyle_damage[flow] = damage])
           /\ out' = Append(out, [ev |-> "ComputeDamageTraversal", flow |-> flow])
    /\ EndProcess
    /\ UNCHANGED <<last_built, incremental, imagevars, document, inDrain, mailbox, cur, frame, fields,
                   prepAcks, exitReqs, exitAcks>>

\* BubbleWidthsTraversal::process on the next flow of the postorder
\* traversal.
BubbleWidthsTraversal_process ==
    /\ pc = "BubbleWidthsTraversal"
    /\ out' = Append(out, [ev |-> "bubble_widths", flow |-> Head(traversal.todo)])
    /\ layout_root' = layout_root
    /\ EndProcess
    /\ UNCHANGED <<last_built, incremental, imagevars, document, inDrain, mailbox, cur, frame, fields,
                   prepAcks, exitReqs, exitAcks>>

\* AssignWidthsTraversal::process on the next flow of the preorder traversal.
AssignWidthsTraversal_process ==
    /\ pc = "AssignWidthsTraversal"
    /\ out' = Append(out, [ev |-> "assign_widths", flow |-> Head(traversal.todo)])
    /\ layout_root' = layout_root
    /\ EndProcess
    /\ UNCHANGED <<last_built, incremental, imagevars, document, inDrain, mailbox, cur, frame, fields,
                   prepAcks, exitReqs, exitAcks>>

\* AssignHeightsAndStoreOverflowTraversal on the next flow of the postorder
\* traversal: should_process reads the flow's inorder flag, and process
\* runs assign_height then store_overflow unless it is set.
AssignHeightsAndStoreOverflowTraversal_process ==
    /\ pc = "AssignHeightsAndStoreOverflowTraversal"
    /\ LET flow == Head(traversal.todo)
       IN  \E inorder \in {"inorder", "not_inorder"} :
            /\ layout_root' = Some([layout_root[1] EXCEPT !.inorder[flow] = inorder])
            /\ out' = IF inorder = "inorder" THEN out
                      ELSE out \o <<[ev |-> "assign_height", flow |-> flow],
                                    [ev |-> "store_overflow", flow |-> flow]>>
    /\ EndProcess
    /\ UNCHANGED <<last_built, incremental, imagevars, document, inDrain, mailbox, cur, frame, fields,
                   prepAcks, exitReqs, exitAcks>>

\* A reflow that has initialized the styles of its subtree and is about to
\* construct the flow tree.
FlowInit ==
    /\ pc = "construct"
    /\ inDrain = FALSE
    /\ mailbox = <<>>
    /\ \E goal \in Goals : cur = ReflowMsg("ReflowDocumentDamage", Size2D(1, 1), goal)
    /\ out = <<[ev |-> "next_round"], [ev |-> "initialize_style_for_subtree"]>>
    /\ \E all_style_damage \in BOOLEAN :
        frame = [all_style_damage |-> all_style_damage, display_list |-> None,
                 color |-> None]
    /\ screen_size = Some(Size2D(from_px(1), from_px(1)))
    /\ display_list = None
    /\ last_built = None
    /\ stylist = <<>>
    /\ layout_data = [n \in Nodes |-> TRUE]
    /\ prepAcks = 0
    /\ exitReqs = 0
    /\ exitAcks = 0
    /\ layout_root = None
    /\ traversal = NoTraversal
    /\ incremental = None
    /\ on_image_available = Some(LayoutImageResponder)
    /\ script_chan = <<>>
    /\ document = Page

\* Flow construction and the two damage traversals, one flow at a time.
DamageNext ==
    \/ construct_flow_tree_root
    \/ PropagateDamageTraversal_process
    \/ ComputeDamageTraversal_process

SpecDamage == FlowInit /\ [][DamageNext]_vars

\* Such a reflow with full style damage (the window size has changed).
FullDamageInit == FlowInit /\ frame.all_style_damage

\* The steps of that reflow, the tree passes one flow at a time.
FlowNext ==
    \/ construct_flow_tree_root
    \/ PropagateDamageTraversal_process
    \/ ComputeDamageTraversal_process
    \/ BubbleWidthsTraversal_process
    \/ AssignWidthsTraversal_process
    \/ AssignHeightsAndStoreOverflowTraversal_process
    \/ handle_reflow_build_display_list
    \/ handle_reflow_cache
    \/ handle_reflow_render
    \/ handle_reflow_join
    \/ handle_reflow_complete

SpecFlow == FullDamageInit /\ [][FlowNext]_vars

\* ----------------------------------------------- the image specification

\* Largest number of events the responder posts to script.
MaxEvents == 2

\* Mutant: the responder also drops the cached display list.
LayoutImageResponder_respond_invalidate ==
    /\ on_image_available /= None
    /\ Len(script_chan) < MaxEvents
    /\ script_chan' = Append(script_chan, [ev |-> "SendEventMsg",
                                           id |-> on_image_available[1].id,
                                           event |-> "ReflowEvent"])
    /\ display_list' = None
    /\ UNCHANGED <<last_built, flowvars, on_image_available, document, pc, inDrain, mailbox,
                   cur, out, frame, screen_size, stylist, layout_data, prepAcks, exitReqs,
                   exitAcks>>

\* The image cache calls the closure LayoutImageResponder::respond() gave
\* it, from whatever task an image arrives in: script_chan.send(
\* SendEventMsg(id, ReflowEvent)).
LayoutImageResponder_respond ==
    /\ on_image_available /= None
    /\ Len(script_chan) < MaxEvents
    /\ script_chan' = Append(script_chan, [ev |-> "SendEventMsg",
                                           id |-> on_image_available[1].id,
                                           event |-> "ReflowEvent"])
    /\ UNCHANGED <<last_built, flowvars, on_image_available, document, pc, inDrain, mailbox,
                   cur, out, frame, fields, prepAcks, exitReqs, exitAcks>>

\* Script sends a message once the task has received the one before.
ImageSend(tag) == mailbox = <<>> /\ ScriptSend(tag)

\* The task and the image cache's calls of the responder, interleaved.
ImageNext ==
    \/ \E tag \in MsgTags : ImageSend(tag)
    \/ RenderExit
    \/ handle_request
    \/ LayoutImageResponder_respond

SpecImage == Init /\ [][ImageNext]_vars

\* ---------------------------------------------- the colour specification

\* A first reflow for display that has solved the constraints and is about
\* to build the display list, over any document of at most MaxElements
\* elements.
ColorInit ==
    /\ pc = "build"
    /\ inDrain = FALSE
    /\ mailbox = <<>>
    /\ \E damage \in DamageLevels :
        /\ cur = ReflowMsg(damage, Size2D(1, 1), "ReflowForDisplay")
        /\ out = <<[ev |-> "next_round"], [ev |-> "initialize_style_for_subtree"]>>
                    \o (IF damage = "ReflowDocumentDamage" THEN <<>>
                        ELSE <<[ev |-> "match_subtree"], [ev |-> "cascade_subtree"]>>)
                    \o <<[ev |-> "construct_flow_tree"], [ev |-> "PropagateDamageTraversal"],
                         [ev |-> "ComputeDamageTraversal"], [ev |-> "solve_constraints"]>>
    /\ frame = [all_style_damage |-> TRUE, display_list |-> None, color |-> None]
    /\ screen_size = Some(Size2D(from_px(1), from_px(1)))
    /\ display_list = None
    /\ last_built = None
    /\ stylist = <<>>
    /\ layout_data = [n \in Nodes |-> TRUE]
    /\ prepAcks = 0
    /\ exitReqs = 0
    /\ exitAcks = 0
    /\ layout_root = None
    /\ traversal = NoTraversal
    /\ incremental = None
    /\ on_image_available = Some(LayoutImageResponder)
    /\ script_chan = <<>>
    /\ document \in UNION {Documents(n) : n \in 0..MaxElements}

\* The rest of that reflow.
ColorNext ==
    \/ handle_reflow_build_display_list
    \/ handle_reflow_cache
    \/ handle_reflow_render
    \/ handle_reflow_join
    \/ handle_reflow_complete

SpecColor == ColorInit /\ [][ColorNext]_vars

\* -------------------------------------------------------------------- claims

\* The indexes of the events of this name in out.
Evs(name) == {i \in 1..Len(out) : out[i].ev = name}

\* A step that receives from the port.
Reads == Len(mailbox') < Len(mailbox)

\* C1: once PrepareToExit has been handled (Draining) the task handles only
\* ReapLayoutData and ExitNow. The port is then read only in the drain loop;
\* a ReapLayoutData read there destroys the layout data it names and leaves
\* the task Draining; any message other than ReapLayoutData and ExitNow read
\* there ends the task at once, with no stylesheet added, no reflow step, no
\* reply and no second pong, and a failed task never acts again.
C1_DrainingHandlesOnlyReapAndExitNow ==
    /\ [](LifeState = "Draining" =>
            cur.type \in {"PrepareToExit", "ReapLayoutData", "ExitNow"})
    /\ [][(inDrain /\ Reads) =>
            /\ pc = "drain"
            /\ mailbox' = Tail(mailbox)
            /\ IF Head(mailbox) = "ReapLayoutData"
               THEN /\ LifeState' = "Draining"
                    /\ pc' = "drain"
                    /\ cur'.type = "ReapLayoutData"
                    /\ layout_data' = [layout_data EXCEPT ![cur'.node] = FALSE]
                    /\ UNCHANGED <<screen_size, display_list, stylist, prepAcks, exitReqs>>
               ELSE IF Head(mailbox) = "ExitNow"
               THEN pc' = "exit_send" /\ UNCHANGED <<fields, prepAcks, exitReqs>>
               ELSE /\ LifeState' = "Failed"
                    /\ cur'.type = Head(mailbox)
                    /\ out' = <<>>
                    /\ UNCHANGED <<frame, fields, prepAcks, exitReqs>>]_vars
    /\ [][pc = "failed" =>
            /\ pc' = "failed"
            /\ UNCHANGED <<inDrain, cur, out, frame, fields, prepAcks, exitReqs>>]_vars

\* C1 witness: a Reflow received while Draining has ended the task.
C1_Witness ==
    /\ LifeState = "Failed"
    /\ inDrain
    /\ cur.type = "Reflow"
    /\ prepAcks = 1
    /\ out = <<>>

\* C2: a PrepareToExit received in Running is answered with exactly one pong
\* on its response channel, sent before the port is read again (so before any
\* ReapLayoutData is drained and before ExitNow is handled), and sending it
\* waits for nothing: the send is enabled as soon as prepare_to_exit is
\* entered, whatever the render task and script have done.
C2_AckBeforeFurtherRead ==
    /\ [](/\ prepAcks <= 1
          /\ (~inDrain => prepAcks = 0)
          /\ (pc = "ack" => prepAcks = 0 /\ cur.type = "PrepareToExit"
                              /\ ENABLED prepare_to_exit_ack)
          /\ (inDrain /\ pc /= "ack" => prepAcks = 1))
    /\ [][(inDrain /\ Reads) => prepAcks = 1]_vars
    /\ [][prepAcks' /= prepAcks =>
            /\ pc = "ack"
            /\ prepAcks' = prepAcks + 1
            /\ mailbox' = mailbox
            /\ UNCHANGED <<cur, exitReqs, exitAcks>>]_vars

\* C2 witness: a ReapLayoutData has been drained after the one pong.
C2_Witness ==
    /\ pc = "drain"
    /\ cur.type = "ReapLayoutData"
    /\ prepAcks = 1
    /\ exitReqs = 0

\* C3: on both paths to Terminated (ExitNow received in Running or in
\* Draining) exactly one ExitMsg is sent to the render task, the task leaves
\* its loop only once the render task has answered it, and a terminated task
\* reads no message and changes nothing.
C3_ExitHandshake ==
    /\ [](/\ exitReqs <= 1
          /\ exitAcks <= exitReqs
          /\ (pc \in {"exit_wait", "done"} <=> exitReqs = 1)
          /\ (pc = "done" => exitAcks = 1 /\ cur.type = "ExitNow"))
    /\ [][pc = "exit_wait" /\ pc' /= pc => pc' = "done" /\ exitAcks = 1]_vars
    /\ [][pc = "done" =>
            /\ pc' = "done"
            /\ ~Reads
            /\ UNCHANGED <<inDrain, cur, out, frame, fields, prepAcks, exitReqs>>]_vars

\* C3 witness: the task has terminated from Draining and a message is left
\* unread in its port.
C3_Witness ==
    /\ LifeState = "Terminated"
    /\ inDrain
    /\ exitReqs = 1
    /\ exitAcks = 1
    /\ mailbox /= <<>>

\* C3, the other path: the task has terminated from Running.
C3_WitnessRunning ==
    /\ LifeState = "Terminated"
    /\ ~inDrain
    /\ exitAcks = 1

\* cur is a reflow request the task has begun to handle (a Reflow read in
\* the drain loop is never handled).
ReflowBegun == cur.type = "Reflow" /\ ~inDrain

\* The task has handled the reflow request cur to its end.
ReflowHandled == ReflowBegun /\ pc = "recv"

\* C4: a reflow signals the join channel and sends ReflowCompleteMsg at most
\* once each at every point of its handling, the join before the completion
\* notice and, for the goal ReflowForDisplay, the RenderMsg of that reflow
\* before both; a reflow handled to its end has done each exactly once,
\* whatever the damage level, window size and goal; and inside a reflow the
\* next step is always enabled, so nothing but the failure of flow
\* construction keeps a reflow from its end.
C4_JoinThenComplete ==
    /\ ReflowBegun =>
        LET J == Evs("join")
            C == Evs("ReflowCompleteMsg")
            R == Evs("RenderMsg")
        IN  /\ Cardinality(J) <= 1
            /\ Cardinality(C) <= 1
            /\ \A c \in C : \E j \in J : j < c
            /\ cur.goal = "ReflowForDisplay" => \A j \in J : \E r \in R : r < j
            /\ ReflowHandled => Cardinality(J) = 1 /\ Cardinality(C) = 1
            /\ pc = "complete" => Cardinality(J) = 1
    /\ pc \in ReflowPcs => ReflowBegun /\ ENABLED handle_reflow

\* C4 witness: a reflow for display with ReflowDocumentDamage has been
\* handled: RenderMsg, then join, then ReflowCompleteMsg.
C4_Witness ==
    /\ ReflowHandled
    /\ cur.goal = "ReflowForDisplay"
    /\ cur.damage = "ReflowDocumentDamage"
    /\ Len(out) >= 3
    /\ out[Len(out) - 2].ev = "RenderMsg"
    /\ out[Len(out) - 1].ev = "join"
    /\ out[Len(out)].ev = "ReflowCompleteMsg"

\* What a reflow sends and calls.
ReflowEvents ==
    {"next_round", "initialize_style_for_subtree", "match_subtree", "cascade_subtree",
     "construct_flow_tree", "PropagateDamageTraversal", "ComputeDamageTraversal",
     "solve_constraints", "build_display_list", "RenderMsg", "join", "ReflowCompleteMsg"}

\* C5: the port is read one message at a time, in arrival order, and only
\* between two handlings: every read takes the head of the port, messages
\* that arrive are queued behind those waiting, and from the start of a
\* reflow to its completion notice no message is read and nothing happens
\* but that reflow's own steps (no reply, no stylesheet added, no layout data
\* reaped, no pong, no exit request, no second reflow).
C5_OneMessageAtATime ==
    [][/\ Reads => /\ pc \in {"recv", "drain"}
                   /\ mailbox' = Tail(mailbox)
                   /\ cur'.type = Head(mailbox)
       /\ ~Reads => /\ SubSeq(mailbox', 1, Len(mailbox)) = mailbox
                    /\ cur' = cur
       /\ pc \in ReflowPcs =>
            /\ ~Reads
            /\ cur' = cur
            /\ pc' \in ReflowPcs \cup {"recv", "failed"}
            /\ Len(out') >= Len(out)
            /\ SubSeq(out', 1, Len(out)) = out
            /\ \A i \in (Len(out) + 1)..Len(out') : out'[i].ev \in ReflowEvents
            /\ UNCHANGED <<inDrain, stylist, screen_size, prepAcks, exitReqs>>
            /\ (layout_data' /= layout_data =>
                    pc = "style" /\ layout_data' = [n \in Nodes |-> TRUE])
            /\ (display_list' /= display_list => pc = "cache")]_vars

\* C5 witness: a reflow is about to send its completion notice while two
\* messages wait in the port.
C5_Witness ==
    /\ pc = "complete"
    /\ cur.type = "Reflow"
    /\ Len(mailbox) >= 2
    /\ mailbox[1] = "Query"

\* C6: whenever the task is not between building a display list and storing
\* it, the cached display list is the one the last build_display_list made,
\* and absent if none was made; it changes only in the cache step of a reflow
\* for display, which stores the list that reflow built; no other handler and
\* no reflow for script queries changes it; and every query answered is
\* answered from the list the most recent reflow for display built.
C6_CachedDisplayList ==
    /\ [](pc /= "cache" => display_list = last_built)
    /\ [][display_list' /= display_list =>
            /\ pc = "cache"
            /\ cur.type = "Reflow"
            /\ cur.goal = "ReflowForDisplay"
            /\ frame.display_list /= None
            /\ display_list' = frame.display_list]_vars
    /\ [][last_built' /= last_built =>
            pc = "build" /\ cur.type = "Reflow" /\ cur.goal = "ReflowForDisplay"]_vars
    /\ [](cur.type = "Query" /\ pc = "recv" =>
            out /= <<>> /\ out = QueryReply(cur.query, last_built))

\* C6 witness: a reflow for script queries has been handled and the list of
\* an earlier reflow for display is still cached.
C6_Witness ==
    /\ ReflowHandled
    /\ cur.goal = "ReflowForScriptQuery"
    /\ display_list = Some(List2)

\* C6, a query answered from the cache of a reflow for display.
C6_WitnessQuery ==
    /\ cur.type = "Query"
    /\ pc = "recv"
    /\ display_list = Some(List2)
    /\ out = <<[ev |-> "HitTestResponse", result |-> Ok("n2")]>>

\* C7: a reflow sends RenderMsg only if its goal is ReflowForDisplay, at most
\* once, before its join, and the record carries the display list the reflow
\* has cached; a reflow handled to its end has sent exactly one RenderMsg if
\* its goal is ReflowForDisplay and none otherwise, and in both cases has
\* stored the requested window size and signalled join and completion.
C7_RenderIffDisplayGoal ==
    ReflowBegun =>
        LET R == Evs("RenderMsg")
        IN  /\ Cardinality(R) <= 1
            /\ cur.goal /= "ReflowForDisplay" => R = {}
            /\ \A r \in R : /\ out[r].display_list /= None
                            /\ out[r].display_list = display_list
                            /\ out[r].display_list = frame.display_list \/ pc = "recv"
            /\ pc \in {"join", "complete", "recv"} =>
                Cardinality(R) = (IF cur.goal = "ReflowForDisplay" THEN 1 ELSE 0)
            /\ pc \in ReflowPcs \cup {"recv"} =>
                screen_size = Some(Size2D(from_px(cur.window_size.width),
                                          from_px(cur.window_size.height)))
            /\ ReflowHandled => Evs("join") /= {} /\ Evs("ReflowCompleteMsg") /= {}

\* C7 witness: a reflow for script queries has been handled with nothing
\* sent to the render task, no display list cached, the window size stored.
C7_Witness ==
    /\ ReflowHandled
    /\ cur.goal = "ReflowForScriptQuery"
    /\ Evs("RenderMsg") = {}
    /\ display_list = None
    /\ screen_size = Some(Size2D(120, 60))
    /\ Evs("join") /= {}
    /\ Evs("ReflowCompleteMsg") /= {}

\* cur is a query received in Running.
QueryInRunning == cur.type = "Query" /\ ~inDrain

\* C8: the task fails in two situations only, a message other than
\* ReapLayoutData and ExitNow received while Draining and a flow construction
\* that leaves no flow at the root, and every query received in Running
\* (ContentBox, ContentBoxes or HitTest), also before any reflow for display,
\* is answered with exactly one reply and leaves the task Running.
C8_FailsInTwoSituationsOnly ==
    /\ LifeState = "Failed" =>
        \/ inDrain /\ cur.type \notin {"ReapLayoutData", "ExitNow"}
        \/ ReflowBegun /\ out /= <<>> /\ out[Len(out)].ev = "construct_flow_tree"
    /\ QueryInRunning =>
        /\ LifeState = "Running"
        /\ Len(out) = 1
        /\ out[1].ev \in {"ContentBoxResponse", "ContentBoxesResponse", "HitTestResponse"}

RECURSIVE AnyItemHit(_, _, _)
\* Some non-clip item of list, at any nesting depth, holds the point in its
\* bounds.
AnyItemHit(x, y, list) ==
    \E i \in 1..Len(list) :
        IF list[i].class = "Clip" THEN AnyItemHit(x, y, list[i].child_list)
        ELSE /\ list[i].bounds.origin.x <= x
             /\ x < list[i].bounds.origin.x + list[i].bounds.size.width
             /\ list[i].bounds.origin.y <= y
             /\ y < list[i].bounds.origin.y + list[i].bounds.size.height

\* cur is a hit test query received in Running.
HitTestInRunning == QueryInRunning /\ cur.query.kind = "HitTest"

\* C9: a hit test query received in Running is answered exactly once and
\* leaves the task Running with its fields as they were; the answer is Err
\* exactly when no display list is cached or no item of the cached list
\* holds the point.
C9_HitTestFailureReply ==
    /\ [](HitTestInRunning =>
            /\ LifeState = "Running"
            /\ pc = "recv"
            /\ Len(out) = 1
            /\ out[1].ev = "HitTestResponse"
            /\ out[1].result = Err <=>
                \/ display_list = None
                \/ ~AnyItemHit(cur.query.point.x * AuPerPx, cur.query.point.y * AuPerPx,
                               display_list[1]))
    /\ [][(Reads /\ pc = "recv" /\ Head(mailbox) = "Query" /\ cur'.query.kind = "HitTest") =>
            UNCHANGED <<pc, inDrain, frame, fields, prepAcks, exitReqs, exitAcks>>]_vars

\* C9 witness: a hit test before any reflow for display has been answered
\* Err and the task is Running.
C9_Witness ==
    /\ HitTestInRunning
    /\ display_list = None
    /\ out = <<[ev |-> "HitTestResponse", result |-> Err]>>
    /\ LifeState = "Running"

\* C9, the other case: a display list is cached and no item holds the point.
C9_WitnessMiss ==
    /\ HitTestInRunning
    /\ display_list /= None
    /\ out = <<[ev |-> "HitTestResponse", result |-> Err]>>

\* C9, the retry: the hit test has succeeded after a reflow for display.
C9_WitnessRetry ==
    /\ HitTestInRunning
    /\ out[1].result.ok

\* The largest element of a non-empty set of numbers.
MaxOf(S) == CHOOSE m \in S : \A k \in S : k <= m

RECURSIVE TwoPhaseHit(_, _, _)
\* The result the two-phase scan is to give for the point (x, y) in app
\* units: the result inside the last-painted clip item that has one inside
\* its children; failing that the owner of the last-painted non-clip item
\* whose bounds hold the point; failing that none.
TwoPhaseHit(x, y, list) ==
    LET ClipHits == {i \in 1..Len(list) :
                        /\ list[i].class = "Clip"
                        /\ TwoPhaseHit(x, y, list[i].child_list) /= None}
        ItemHits == {i \in 1..Len(list) :
                        /\ list[i].class /= "Clip"
                        /\ list[i].bounds.origin.x <= x
                        /\ x < list[i].bounds.origin.x + list[i].bounds.size.width
                        /\ list[i].bounds.origin.y <= y
                        /\ y < list[i].bounds.origin.y + list[i].bounds.size.height}
    IN  IF ClipHits /= {} THEN TwoPhaseHit(x, y, list[MaxOf(ClipHits)].child_list)
        ELSE IF ItemHits /= {} THEN Some(list[MaxOf(ItemHits)].extra)
        ELSE None

\* C10: the answer to a hit test over a cached display list is the result
\* of the two-phase scan applied at every nesting level: a hit inside a clip
\* item's children, the last-painted such clip item first, wins over every
\* non-clip item of the level, and only when no clip item has a hit inside
\* does the last-painted non-clip item holding the point win.
C10_TwoPhaseScan ==
    (HitTestInRunning /\ display_list /= None) =>
        LET hit == TwoPhaseHit(cur.query.point.x * AuPerPx, cur.query.point.y * AuPerPx,
                               display_list[1])
        IN  /\ Len(out) = 1
            /\ out[1].result = IF hit = None THEN Err ELSE Ok(hit[1])

\* C10 witness: the last-painted item of the list is a non-clip item owned
\* by n2 that holds the point, a clip item painted before it has an item of
\* n1 holding the point among its children, and the answer is n1.
C10_Witness ==
    /\ HitTestInRunning
    /\ display_list /= None
    /\ cur.query.point = Point2D(0, 0)
    /\ Len(display_list[1]) = 2
    /\ display_list[1][1] = ClipItem(RectA, "n1", <<SolidItem(RectA, "n1")>>)
    /\ display_list[1][2] = SolidItem(RectA, "n2")
    /\ out = <<[ev |-> "HitTestResponse", result |-> Ok("n1")]>>

\* C10, nesting: the hit is two clip levels down.
C10_WitnessNested ==
    /\ HitTestInRunning
    /\ display_list =
        Some(<<ClipItem(RectA, "n1", <<ClipItem(RectA, "n1", <<SolidItem(RectB, "n1")>>)>>),
               SolidItem(RectA, "n2")>>)
    /\ cur.query.point = Point2D(1, 1)
    /\ out = <<[ev |-> "HitTestResponse", result |-> Ok("n1")]>>

RECURSIVE NonClipItems(_)
\* The non-clip items of list, at every nesting depth.
NonClipItems(list) ==
    UNION {IF list[i].class = "Clip" THEN NonClipItems(list[i].child_list) ELSE {list[i]} :
              i \in 1..Len(list)}

\* C11: the containment check of the hit test is half-open on both axes.
\* A hit test over a cached display list succeeds exactly when some non-clip
\* item has ox <= x < ox + w and oy <= y < oy + h, and the node answered owns
\* such an item; so an item with the point on its min edges and a positive
\* size gives a hit, and items with the point on a max edge, or with zero
\* width or zero height, never give one.
C11_HalfOpenBounds ==
    (HitTestInRunning /\ display_list /= None) =>
        LET x == cur.query.point.x * AuPerPx
            y == cur.query.point.y * AuPerPx
            items == NonClipItems(display_list[1])
            Holds(b) == /\ b.origin.x <= x /\ x < b.origin.x + b.size.width
                        /\ b.origin.y <= y /\ y < b.origin.y + b.size.height
            OnMinEdge(b) == /\ b.origin.x = x /\ b.origin.y = y
                            /\ b.size.width > 0 /\ b.size.height > 0
            NeverHit(b) == \/ x = b.origin.x + b.size.width
                           \/ y = b.origin.y + b.size.height
                           \/ b.size.width = 0
                           \/ b.size.height = 0
        IN  /\ out[1].result.ok <=> \E it \in items : Holds(it.bounds)
            /\ out[1].result.ok =>
                    \E it \in items : /\ it.extra = out[1].result.val[1]
                                       /\ Holds(it.bounds)
                                       /\ ~NeverHit(it.bounds)
            /\ (\E it \in items : OnMinEdge(it.bounds)) => out[1].result.ok
            /\ (\A it \in items : NeverHit(it.bounds)) => ~out[1].result.ok

\* C11 witness: the point (60, 60) lies on the max edges of the last-painted
\* item, on the origin of a zero-width and of a zero-height item painted
\* before it, and on the min edges of the first item, whose owner is the
\* answer.
C11_Witness ==
    /\ HitTestInRunning
    /\ cur.query.point = Point2D(1, 1)
    /\ display_list = Some(<<SolidItem(RectB, "n1"), SolidItem(RectH, "n2"),
                             SolidItem(RectW, "n2"), SolidItem(RectA, "n2")>>)
    /\ out = <<[ev |-> "HitTestResponse", result |-> Ok("n1")]>>

\* C11, the max edge alone: the only item has the point on its max edges.
C11_WitnessMaxEdge ==
    /\ HitTestInRunning
    /\ cur.query.point = Point2D(1, 1)
    /\ display_list = Some(<<SolidItem(RectA, "n1")>>)
    /\ out = <<[ev |-> "HitTestResponse", result |-> Err]>>

RECURSIVE Flatten(_)
\* The items of list at every nesting depth, the children of an item before
\* the item itself.
Flatten(list) ==
    IF list = <<>> THEN <<>>
    ELSE Flatten(Head(list).child_list) \o <<Head(list)>> \o Flatten(Tail(list))

\* The bounds of the items of the display list owned by node, in that order.
OwnedBounds(list, node) ==
    LET own == SelectSeq(Flatten(list), LAMBDA item : item.extra = node)
    IN  [i \in 1..Len(own) |-> own[i].bounds]

\* The smallest element of a non-empty set of numbers.
MinOf(S) == CHOOSE m \in S : \A k \in S : m <= k

\* The smallest rect holding every rect of the non-empty sequence rects.
BoundingRect(rects) ==
    LET I == 1..Len(rects)
        x0 == MinOf({rects[i].origin.x : i \in I})
        y0 == MinOf({rects[i].origin.y : i \in I})
        x1 == MaxOf({rects[i].origin.x + rects[i].size.width : i \in I})
        y1 == MaxOf({rects[i].origin.y + rects[i].size.height : i \in I})
    IN  [origin |-> [x |-> x0, y |-> y0], size |-> [width |-> x1 - x0, height |-> y1 - y0]]

\* cur is a box query received in Running with a display list cached.
BoxQueryAnswered ==
    /\ QueryInRunning
    /\ cur.query.kind \in {"ContentBox", "ContentBoxes"}
    /\ display_list /= None

\* C12: over every cached display list and target node, ContentBoxes is
\* answered with the bounds of exactly the items the node owns, at any
\* nesting depth, an item's nested matches before the item's own bounds, and
\* ContentBox with the smallest rect holding exactly those bounds, or the
\* zero rect when the node owns no item.
C12_ContentBoxesOfNode ==
    BoxQueryAnswered =>
        LET owned == OwnedBounds(display_list[1], cur.query.node)
        IN  /\ Len(out) = 1
            /\ pc = "recv"
            /\ IF cur.query.kind = "ContentBoxes"
               THEN /\ out[1].ev = "ContentBoxesResponse"
                    /\ out[1].rects = owned
               ELSE /\ out[1].ev = "ContentBoxResponse"
                    /\ out[1].rect = IF owned = <<>> THEN [origin |-> [x |-> 0, y |-> 0],
                                                          size |-> [width |-> 0, height |-> 0]]
                                     ELSE BoundingRect(owned)

\* C12 witness: the node owns a clip item and an item two levels inside it;
\* the bounds of the nested item come first, the clip item's own after it,
\* and the top-level item of the other node is left out.
C12_Witness ==
    /\ BoxQueryAnswered
    /\ cur.query = ContentBoxesQuery("n1")
    /\ display_list =
        Some(<<ClipItem(RectA, "n1", <<ClipItem(RectA, "n1", <<SolidItem(RectB, "n1")>>)>>),
               SolidItem(RectA, "n2")>>)
    /\ out = <<[ev |-> "ContentBoxesResponse", rects |-> <<RectB, RectA, RectA>>]>>

\* C12, the union: the rect holding the bounds of the same items.
C12_WitnessUnion ==
    /\ BoxQueryAnswered
    /\ cur.query = ContentBoxQuery("n1")
    /\ display_list =
        Some(<<ClipItem(RectA, "n1", <<ClipItem(RectA, "n1", <<SolidItem(RectB, "n1")>>)>>),
               SolidItem(RectA, "n2")>>)
    /\ out = <<[ev |-> "ContentBoxResponse", rect |-> Rect(0, 0, 120, 120)]>>

\* C12, the empty set: the node owns no item of a non-empty list.
C12_WitnessEmpty ==
    /\ BoxQueryAnswered
    /\ cur.query = ContentBoxQuery("n2")
    /\ display_list = Some(<<SolidItem(RectB, "n1")>>)
    /\ out = <<[ev |-> "ContentBoxResponse", rect |-> zero_rect]>>

\* A step that receives a reflow request in Running.
ReflowReceived == Reads /\ pc = "recv" /\ Head(mailbox) = "Reflow"

\* The window size of the reflow request msg, in app units.
RequestedSize(msg) ==
    [width |-> msg.window_size.width * AuPerPx, height |-> msg.window_size.height * AuPerPx]

\* C13: no viewport size is stored at the start and only the receipt of a
\* reflow request stores one; a reflow runs with full style damage exactly
\* when its damage level is ContentChanged or its window size is not the one
\* stored (so the first reflow always does, and a later one with another
\* damage level and the stored size does not); the flag is fixed for the
\* whole reflow; and from its receipt on the stored size is the requested
\* one, whatever the damage level and the goal.
C13_ForceFull ==
    /\ screen_size = None
    /\ [][screen_size' /= screen_size => ReflowReceived]_vars
    /\ [][ReflowReceived =>
            LET changed == screen_size /= <<RequestedSize(cur')>>
                content == cur'.damage = "ContentChangedDocumentDamage"
            IN  /\ frame'.all_style_damage <=> (content \/ changed)
                /\ screen_size = <<>> => frame'.all_style_damage
                /\ (~content /\ ~changed) => ~frame'.all_style_damage
                /\ screen_size' = <<RequestedSize(cur')>>]_vars
    /\ [][(pc \in ReflowPcs /\ pc' \in ReflowPcs) =>
            frame'.all_style_damage = frame.all_style_damage]_vars
    /\ [](ReflowBegun => screen_size = <<RequestedSize(cur)>>)

\* C13 witness: a reflow for script queries after an earlier reflow for
\* display, with MatchSelectors damage and the stored window size, runs
\* without full style damage.
C13_Witness ==
    /\ ReflowBegun
    /\ pc = "layout"
    /\ display_list /= None
    /\ cur.damage = "MatchSelectorsDocumentDamage"
    /\ cur.goal = "ReflowForScriptQuery"
    /\ ~frame.all_style_damage

\* C13, the size change: a reflow with Reflow damage after an earlier
\* reflow runs with full style damage.
C13_WitnessResized ==
    /\ ReflowBegun
    /\ pc = "layout"
    /\ display_list /= None
    /\ cur.damage = "ReflowDocumentDamage"
    /\ frame.all_style_damage

\* C14: a reflow calls initialize_style_for_subtree exactly once whatever
\* its damage level; it calls match_subtree and cascade_subtree, once each
\* and in that order after the initialization, exactly when its damage level
\* is not ReflowDocumentDamage, and neither of them when it is.
C14_MatchUnlessReflowDamage ==
    ReflowBegun =>
        LET I == Evs("initialize_style_for_subtree")
            M == Evs("match_subtree")
            C == Evs("cascade_subtree")
        IN  /\ pc = "style" => I = {} /\ M = {} /\ C = {}
            /\ pc /= "style" =>
                /\ Cardinality(I) = 1
                /\ IF cur.damage = "ReflowDocumentDamage"
                   THEN M = {} /\ C = {}
                   ELSE /\ Cardinality(M) = 1
                        /\ Cardinality(C) = 1
                        /\ \A i \in I, m \in M, c \in C : i < m /\ m < c

\* C14 witness: a reflow with ReflowDocumentDamage has been handled to its
\* end with the style initialization and no selector matching or cascade.
C14_Witness ==
    /\ ReflowHandled
    /\ cur.damage = "ReflowDocumentDamage"
    /\ Evs("initialize_style_for_subtree") /= {}
    /\ Evs("match_subtree") = {}
    /\ Evs("cascade_subtree") = {}

\* C14, the other case: matching then cascade with MatchSelectors damage.
C14_WitnessMatch ==
    /\ ReflowHandled
    /\ cur.damage = "MatchSelectorsDocumentDamage"
    /\ Len(out) >= 4
    /\ out[2].ev = "initialize_style_for_subtree"
    /\ out[3].ev = "match_subtree"
    /\ out[4].ev = "cascade_subtree"

\* The top-down damage pass is running or has just ended: traversal.marks[1]
\* is the damage the flows had when the tree was constructed.
TopDownBegun ==
    layout_root /= None /\ pc \in {"PropagateDamageTraversal", "ComputeDamageTraversal"}

\* The top-down damage pass has ended and no later pass has: traversal.marks
\* holds the damage before and after it.
TopDownEnded == layout_root /= None /\ pc = "ComputeDamageTraversal"

\* C15: after the top-down damage pass over any flow tree, with full style
\* damage every flow's damage is all bits, and without it every flow but
\* the root holds propagate_down of the damage its parent has at the end of
\* the pass, so that forced damage reaches every descendant; in both cases,
\* and at every point of the pass, no flow has lost a bit it had when the
\* tree was constructed.
C15_TopDownDamage ==
    /\ TopDownBegun =>
            \A i \in 1..Len(layout_root[1].parent) :
                traversal.marks[1][i] \subseteq layout_root[1].restyle_damage[i]
    /\ TopDownEnded =>
        LET parent == layout_root[1].parent
            before == traversal.marks[1]
            after == traversal.marks[2]
        IN  \A i \in 1..Len(parent) :
                /\ before[i] \subseteq after[i]
                /\ frame.all_style_damage => after[i] = {"BubbleWidths", "Reflow"}
                /\ (~frame.all_style_damage /\ i /= 1) =>
                        propagate_down(after[parent[i]]) \subseteq after[i]

\* C15 witness: without full style damage, the Reflow bit of the root of a
\* chain of three flows has reached its grandchild.
C15_Witness ==
    /\ TopDownEnded
    /\ ~frame.all_style_damage
    /\ layout_root[1].parent = <<0, 1, 2>>
    /\ traversal.marks = <<<<{"Reflow"}, {}, {}>>, <<{"Reflow"}, {"Reflow"}, {"Reflow"}>>>>

\* C15, full style damage: three flows without damage all have all bits.
C15_WitnessForced ==
    /\ TopDownEnded
    /\ frame.all_style_damage
    /\ layout_root[1].parent = <<0, 1, 1>>
    /\ traversal.marks = <<<<{}, {}, {}>>, <<Bits, Bits, Bits>>>>

\* The children of flow i in the flow tree.
Kids(i) == {k \in 1..Len(layout_root[1].parent) : layout_root[1].parent[k] = i}

\* The bottom-up damage pass has ended and no later pass has:
\* traversal.marks holds the damage before and after it.
BottomUpEnded == layout_root /= None /\ pc = "BubbleWidthsTraversal"

\* C16: after the bottom-up damage pass over any flow tree and any damage
\* values, the damage of every flow is the union of the damage it had
\* before the pass and propagate_up of the final damage of each of its
\* children; so it holds its own prior damage and every child's
\* contribution, and a leaf's damage is unchanged.
C16_BottomUpDamage ==
    BottomUpEnded =>
        LET before == traversal.marks[1]
            after == traversal.marks[2]
        IN  /\ after = layout_root[1].restyle_damage
            /\ \A i \in 1..Len(layout_root[1].parent) :
                /\ after[i] = before[i] \cup UNION {propagate_up(after[k]) : k \in Kids(i)}
                /\ before[i] \subseteq after[i]
                /\ \A k \in Kids(i) : propagate_up(after[k]) \subseteq after[i]
                /\ Kids(i) = {} => after[i] = before[i]

\* C16 witness: the BubbleWidths bit of the second child of the root has
\* reached the root; the Reflow bit has not, and the leaves are unchanged.
C16_Witness ==
    /\ BottomUpEnded
    /\ layout_root[1].parent = <<0, 1, 1>>
    /\ traversal.marks = <<<<{}, {}, {"BubbleWidths", "Reflow"}>>,
                           <<{"BubbleWidths"}, {}, {"BubbleWidths", "Reflow"}>>>>

\* C16, transitively: the bit of a grandchild has reached the root through
\* the aggregated damage of the child.
C16_WitnessChain ==
    /\ BottomUpEnded
    /\ layout_root[1].parent = <<0, 1, 2>>
    /\ traversal.marks = <<<<{}, {}, {"BubbleWidths"}>>,
                           <<{"BubbleWidths"}, {"BubbleWidths"}, {"BubbleWidths"}>>>>

\* C17: flow construction in a reflow either leaves no flow at the root,
\* and then the task fails at once, with no flow tree, no traversal, nothing
\* sent or called after it (no constraint pass, no RenderMsg, no join, no
\* ReflowCompleteMsg) and the cached display list as it was; or it yields
\* one flow tree whose root, the one flow without a parent, is the one flow
\* marked as root, and the task does not fail.
C17_ConstructOrFail ==
    LET K == Evs("construct_flow_tree")
    IN  /\ Cardinality(K) <= 1
        /\ K = {} <=> pc = "construct"
        /\ \A k \in K :
            IF out[k].flow_construction_result = "NoConstructionResult"
            THEN /\ pc = "failed"
                 /\ k = Len(out)
                 /\ layout_root = None
                 /\ traversal = NoTraversal
                 /\ display_list = None
                 /\ frame.display_list = None
            ELSE /\ pc /= "failed"
                 /\ pc /= "recv" =>
                    /\ layout_root /= None
                    /\ LET tree == layout_root[1]
                           flows == 1..Len(tree.parent)
                       IN  /\ Cardinality({i \in flows : tree.is_root[i]}) = 1
                           /\ \A i \in flows : tree.is_root[i] <=> tree.parent[i] = 0

\* C17 witness: a reflow for display has failed in flow construction with
\* nothing done after it.
C17_Witness ==
    /\ pc = "failed"
    /\ cur.type = "Reflow"
    /\ cur.goal = "ReflowForDisplay"
    /\ out[Len(out)].ev = "construct_flow_tree"
    /\ Evs("join") = {}
    /\ Evs("ReflowCompleteMsg") = {}
    /\ display_list = None

\* C17, the other outcome: a tree of three flows with its root marked.
C17_WitnessTree ==
    /\ pc = "join"
    /\ layout_root /= None
    /\ layout_root[1].parent = <<0, 1, 1>>
    /\ layout_root[1].is_root = <<TRUE, FALSE, FALSE>>

\* The place of a call in the order of the whole-tree passes of a reflow.
PassRank(ev) ==
    CASE ev = "construct_flow_tree" -> 1
      [] ev = "PropagateDamageTraversal" -> 2
      [] ev = "ComputeDamageTraversal" -> 3
      [] ev = "bubble_widths" -> 4
      [] ev = "assign_widths" -> 5
      [] ev \in {"assign_height", "store_overflow"} -> 6
      [] ev = "build_display_list" -> 7
      [] ev \in {"RenderMsg", "join", "ReflowCompleteMsg"} -> 8
      [] OTHER -> 0

\* The call that pass rank makes on each flow it processes.
PassCall(rank) ==
    CASE rank = 2 -> "PropagateDamageTraversal"
      [] rank = 3 -> "ComputeDamageTraversal"
      [] rank = 4 -> "bubble_widths"
      [] rank = 5 -> "assign_widths"
      [] rank = 6 -> "assign_height"

\* The call of the pass of this rank has been made on this flow.
Called(rank, flow) ==
    \E i \in 1..Len(out) : out[i].ev = PassCall(rank) /\ out[i].flow = flow

\* C18: in every reflow the calls of the whole-tree passes come in the
\* order flow construction, top-down damage, bottom-up damage, bubble
\* widths, assign widths, assign heights and store overflow, display list
\* building (no call is followed by a call of an earlier pass), and once a
\* call of a later pass has been made every earlier pass has been applied to
\* every flow of the tree (assign heights: to every flow not flagged
\* in-order), so a pass ends on all flows before the next one starts on
\* any; the display list is built only when the goal is ReflowForDisplay,
\* and then after all of them.
C18_PassOrder ==
    /\ \A j \in 2..Len(out) : PassRank(out[j - 1].ev) <= PassRank(out[j].ev)
    /\ layout_root /= None =>
        LET tree == layout_root[1]
        IN  \A rank \in 2..6 :
                (\E j \in 1..Len(out) : PassRank(out[j].ev) > rank) =>
                    \A flow \in 1..Len(tree.parent) :
                        \/ Called(rank, flow)
                        \/ rank = 6 /\ tree.inorder[flow] = "inorder"
    /\ Evs("build_display_list") /= {} => cur.goal = "ReflowForDisplay"
    /\ (pc \in {"cache", "render"} \/ (pc \in {"join", "complete"} /\ cur.goal = "ReflowForDisplay"))
            => Cardinality(Evs("build_display_list")) = 1

\* C18 witness: the display list of a reflow for display has been built
\* after all five traversals have run over a tree of three flows.
C18_Witness ==
    /\ pc = "cache"
    /\ layout_root /= None
    /\ layout_root[1].parent = <<0, 1, 1>>
    /\ layout_root[1].inorder = <<"not_inorder", "not_inorder", "not_inorder">>
    /\ Len(out) = 2 + 1 + 3 + 3 + 3 + 3 + 6 + 1
    /\ out[4].ev = "PropagateDamageTraversal"
    /\ out[7].ev = "ComputeDamageTraversal"
    /\ out[10].ev = "bubble_widths" /\ out[10].flow = 2
    /\ out[12].ev = "bubble_widths" /\ out[12].flow = 1
    /\ out[13].ev = "assign_widths" /\ out[13].flow = 1
    /\ out[16].ev = "assign_height" /\ out[16].flow = 2
    /\ out[22].ev = "build_display_list"

\* The elements of the document that are the html or the body element and
\* whose resolved background is not fully transparent (its alpha is not 0).
Candidates ==
    {i \in 1..Len(document) :
        /\ document[i].type_id \in {"HTMLHtmlElementTypeId", "HTMLBodyElementTypeId"}
        /\ document[i].background_color.a /= 0}

\* C19: the colour of the render layer a reflow sends is the resolved
\* background of the first element in document order that is the html or
\* the body element and whose resolved background is not fully transparent,
\* and opaque white when there is no such element; elements of other kinds
\* never give the colour, and a fully transparent html or body element is
\* passed over.
C19_BackgroundColor ==
    \A r \in Evs("RenderMsg") :
        /\ out[r].color /= <<>>
        /\ out[r].color[1] =
                IF Candidates = {} THEN [r |-> 255, g |-> 255, b |-> 255, a |-> 255]
                ELSE document[MinOf(Candidates)].background_color

\* The event the responder of this task posts.
ReflowEventMsg == [ev |-> "SendEventMsg", id |-> "PipelineId", event |-> "ReflowEvent"]

\* C20: every reflow resets the round of the image cache exactly once, at
\* its start, and installs the responder of this task, which no other step
\* installs or removes; a call of the responder is possible in every state
\* of the task once installed (in a reflow, while Draining, after Terminated
\* or Failed), posts exactly one ReflowEvent with the pipeline id of the task
\* to script, and changes nothing of the task: not its position, its port,
\* its viewport size, cached display list, stylist or layout data, and
\* nothing it has sent; and no step of the task posts such an event.
C20_ResponderOnlyPosts ==
    /\ [](ReflowBegun => Evs("next_round") = {1})
    /\ [](on_image_available = IF screen_size = <<>> THEN <<>> ELSE <<[id |-> "PipelineId"]>>)
    /\ []((on_image_available /= <<>> /\ Len(script_chan) < MaxEvents)
            => ENABLED LayoutImageResponder_respond)
    /\ [][on_image_available' /= on_image_available => ReflowReceived]_vars
    /\ [][script_chan' /= script_chan =>
            /\ script_chan' = Append(script_chan, ReflowEventMsg)
            /\ UNCHANGED <<pc, inDrain, mailbox, cur, out, frame, screen_size, display_list,
                           stylist, layout_data, prepAcks, exitReqs, exitAcks, last_built,
                           flowvars, on_image_available, document>>]_vars

\* C20 witness: the task has terminated after a reflow for display, the
\* responder has posted an event, and it can be called again.
C20_Witness ==
    /\ LifeState = "Terminated"
    /\ display_list /= None
    /\ script_chan = <<ReflowEventMsg>>
    /\ ENABLED LayoutImageResponder_respond

\* C20, in a reflow: the first reflow of the task has reset the round, and
\* the responder it installed has posted an event before flow construction.
C20_WitnessReflow ==
    /\ ReflowBegun
    /\ pc = "construct"
    /\ stylist = <<>>
    /\ script_chan = <<ReflowEventMsg>>
    /\ out[1].ev = "next_round"

\* C20, while Draining.
C20_WitnessDraining ==
    /\ LifeState = "Draining"
    /\ pc = "drain"
    /\ Len(script_chan) = 2

\* C21: the hit test searches the children of every clip item whether or
\* not the clip item's own bounds hold the point, and a clip item is never
\* the answer. Over a cached display list: when a non-clip item nested in
\* some clip item of the list holds the point, the answer is the owner of
\* such a nested item, also when the point lies outside every clip item
\* around it; the node answered always owns a non-clip item that holds the
\* point; and when no non-clip item holds the point the answer is Err, also
\* when the point lies inside the bounds of a clip item.
C21_ClipBoundsIgnored ==
    (HitTestInRunning /\ display_list /= None) =>
        LET x == cur.query.point.x * AuPerPx
            y == cur.query.point.y * AuPerPx
            list == display_list[1]
            Holds(b) == /\ b.origin.x <= x /\ x < b.origin.x + b.size.width
                        /\ b.origin.y <= y /\ y < b.origin.y + b.size.height
            clips == {i \in 1..Len(list) : list[i].class = "Clip"}
            nested == UNION {NonClipItems(list[i].child_list) : i \in clips}
            nestedHits == {it \in nested : Holds(it.bounds)}
            allHits == {it \in NonClipItems(list) : Holds(it.bounds)}
        IN  /\ Len(out) = 1
            /\ nestedHits /= {} =>
                    /\ out[1].result.ok
                    /\ \E it \in nestedHits : it.extra = out[1].result.val[1]
            /\ out[1].result.ok => \E it \in allHits : it.extra = out[1].result.val[1]
            /\ allHits = {} => out[1].result = Err

\* C21 witness: the point (60, 60) lies outside the bounds of the only clip
\* item and inside the bounds of its child, which n1 owns; the non-clip
\* sibling painted last, which n2 owns, does not hold the point. The answer
\* is n1.
C21_Witness ==
    /\ HitTestInRunning
    /\ cur.query.point = Point2D(1, 1)
    /\ display_list = Some(<<ClipItem(RectA, "n1", <<SolidItem(RectB, "n1")>>),
                             SolidItem(RectA, "n2")>>)
    /\ out = <<[ev |-> "HitTestResponse", result |-> Ok("n1")]>>

\* C21, the clip item is no result: the point (0, 0) lies inside the bounds
\* of a clip item whose only child does not hold it, and of no non-clip
\* sibling; the answer is Err.
C21_WitnessInsideClip ==
    /\ HitTestInRunning
    /\ cur.query.point = Point2D(0, 0)
    /\ display_list = Some(<<ClipItem(RectA, "n1", <<SolidItem(RectB, "n1")>>),
                             SolidItem(RectB, "n1")>>)
    /\ out = <<[ev |-> "HitTestResponse", result |-> Err]>>

\* The places in the log of the reflow of the calls of this name on flow.
Calls(name, flow) == {j \in 1..Len(out) : out[j].ev = name /\ out[j].flow = flow}

\* The constraint solve has gone past the traversal of this name.
PassEnded(name) ==
    LET i == CHOOSE k \in 1..Len(Passes) : Passes[k] = name
    IN  \/ \E k \in (i + 1)..Len(Passes) : pc = Passes[k]
        \/ pc \in {"build", "cache", "render", "join", "complete"}

\* C22: within the constraint solve of a reflow, bubble_widths is called on
\* every flow exactly once, on a flow after all of its children;
\* assign_widths is called on every flow exactly once, on a flow before any
\* of its children; assign_height, with store_overflow right after it, is
\* called exactly once on every flow not flagged in-order, after all the
\* children of the flow have been visited by the traversal (and after the
\* calls on those of them not flagged in-order), and the traversal makes
\* neither call on a flow flagged in-order.
C22_PerNodeOrder ==
    layout_root /= None =>
        LET tree == layout_root[1]
            flows == 1..Len(tree.parent)
            Once(name, flow, ended) ==
                /\ Cardinality(Calls(name, flow)) <= 1
                /\ ended => Calls(name, flow) /= {}
            Before(name, first, second) ==
                Calls(name, second) /= {} =>
                    /\ Calls(name, first) /= {}
                    /\ \A i \in Calls(name, first), j \in Calls(name, second) : i < j
        IN  \A flow \in flows :
                /\ Once("bubble_widths", flow, PassEnded("BubbleWidthsTraversal"))
                /\ Once("assign_widths", flow, PassEnded("AssignWidthsTraversal"))
                /\ Once("assign_height", flow,
                        /\ PassEnded("AssignHeightsAndStoreOverflowTraversal")
                        /\ tree.inorder[flow] = "not_inorder")
                /\ Calls("store_overflow", flow) = {j + 1 : j \in Calls("assign_height", flow)}
                /\ tree.inorder[flow] = "inorder" =>
                        /\ Calls("assign_height", flow) = {}
                        /\ Calls("store_overflow", flow) = {}
                /\ \A kid \in {k \in flows : tree.parent[k] = flow} :
                        /\ Before("bubble_widths", kid, flow)
                        /\ Before("assign_widths", flow, kid)
                        /\ Calls("assign_height", flow) /= {} =>
                                /\ tree.inorder[kid] /= "unread"
                                /\ tree.inorder[kid] = "not_inorder" =>
                                        /\ Calls("assign_height", kid) /= {}
                                        /\ \A i \in Calls("store_overflow", kid),
                                              j \in Calls("assign_height", flow) : i < j

\* C22 witness: the constraint solve has ended on a chain of three flows of
\* which the middle one is flagged in-order: widths were bubbled from the
\* leaf to the root and assigned from the root to the leaf, heights were
\* assigned and overflow stored on the leaf and then on the root, and on the
\* middle flow neither.
C22_Witness ==
    /\ pc \in {"build", "join"}
    /\ layout_root /= None
    /\ layout_root[1].parent = <<0, 1, 2>>
    /\ layout_root[1].inorder = <<"not_inorder", "inorder", "not_inorder">>
    /\ Len(out) = 19
    /\ [j \in 10..12 |-> out[j]] = [j \in 10..12 |-> [ev |-> "bubble_widths", flow |-> 13 - j]]
    /\ [j \in 13..15 |-> out[j]] = [j \in 13..15 |-> [ev |-> "assign_widths", flow |-> j - 12]]
    /\ out[16] = [ev |-> "assign_height", flow |-> 3]
    /\ out[17] = [ev |-> "store_overflow", flow |-> 3]
    /\ out[18] = [ev |-> "assign_height", flow |-> 1]
    /\ out[19] = [ev |-> "store_overflow", flow |-> 1]

\* C22, siblings: on a root with two children, none flagged in-order, both
\* children have had their heights assigned before the root.
C22_WitnessSiblings ==
    /\ pc \in {"build", "join"}
    /\ layout_root /= None
    /\ layout_root[1].parent = <<0, 1, 1>>
    /\ Calls("assign_height", 2) = {16}
    /\ Calls("assign_height", 3) = {18}
    /\ Calls("assign_height", 1) = {20}
    /\ Calls("bubble_widths", 1) = {12}
    /\ Calls("assign_widths", 1) = {13}

\* An ExitNowMsg is in the port of the task, sent and not yet received.
ExitNowSent == \E i \in 1..Len(mailbox) : mailbox[i] = "ExitNow"

\* The task has received ExitNowMsg, in Running or in the drain loop, and
\* has entered exit_now.
ExitNowReceived == pc = "exit_send" /\ cur.type = "ExitNow"

\* The task waits for the render task's answer to its ExitMsg, which has
\* not come.
BlockedInHandshake == pc = "exit_wait" /\ exitAcks < exitReqs

C23_WitnessBlocked ==
    /\ BlockedInHandshake
    /\ LifeState = "Running"
    /\ screen_size /= None

\* A step that sends a RenderMsg on render_chan.
SendsRenderMsg == Len(out') = Len(out) + 1 /\ out'[Len(out')].ev = "RenderMsg"

\* A step that sends an ExitMsg on render_chan.
SendsExitMsg == exitReqs' /= exitReqs

\* C24: ExitMsg is the last message the task sends on render_chan. It is
\* sent at most once, by exit_now on ExitNowMsg; once it has been sent no
\* step sends a RenderMsg or another ExitMsg; and a task that has failed (on
\* a message that is neither ReapLayoutDataMsg nor ExitNowMsg in the drain
\* loop, or on a flow construction that leaves no flow) has sent no ExitMsg
\* and sends nothing on render_chan afterwards.
C24_ExitMsgLast ==
    /\ [](/\ exitReqs <= 1
          /\ exitReqs = 1 => Evs("RenderMsg") = {}
          /\ LifeState = "Failed" => exitReqs = 0)
    /\ [][SendsExitMsg =>
            /\ exitReqs = 0
            /\ exitReqs' = 1
            /\ cur.type = "ExitNow"
            /\ out' = <<[ev |-> "ExitMsg"]>>]_vars
    /\ [][SendsRenderMsg => (exitReqs = 0 /\ exitReqs' = 0)]_vars
    /\ [][LifeState = "Failed" =>
            (LifeState' = "Failed" /\ ~SendsExitMsg /\ ~SendsRenderMsg)]_vars

\* C24 witness: a reflow for display has sent a RenderMsg, and later the
\* task has sent its ExitMsg, been answered and terminated.
C24_Witness ==
    /\ LifeState = "Terminated"
    /\ last_built /= None
    /\ exitReqs = 1
    /\ out = <<[ev |-> "ExitMsg"]>>

\* C24, a fatal end in the drain loop: no ExitMsg has been sent.
C24_WitnessDrainFailure ==
    /\ LifeState = "Failed"
    /\ inDrain
    /\ last_built /= None
    /\ exitReqs = 0

\* C24, a fatal end in flow construction: no ExitMsg has been sent.
C24_WitnessFlowFailure ==
    /\ LifeState = "Failed"
    /\ ~inDrain
    /\ cur.type = "Reflow"
    /\ out[Len(out)].ev = "construct_flow_tree"
    /\ exitReqs = 0

====
